---- MODULE Spec2Model ----
(***************************************************************************)
(* MRI hologram viewer: the NIfTI-1 decode pipeline (services/niftiLoader) *)
(* and the App component that loads the T1 and T2 scans and decides        *)
(* whether the volume viewer is rendered.                                  *)
(*                                                                         *)
(* Numbers.  A JavaScript number is a record [nan, v]: v counts halves     *)
(* (v = 3 is 1.5), nan marks NaN.  The inputs are chosen so that every     *)
(* value the code computes is a multiple of one half or NaN; infinities    *)
(* and subnormals are not among the inputs.                                *)
(*                                                                         *)
(* Bytes.  A scan file is its header fields as the bytes stored at their   *)
(* offsets plus the bytes that follow the 348-byte header; every read of   *)
(* the code is a read of those bytes in a byte order.                      *)
(***************************************************************************)
EXTENDS Integers, Sequences, FiniteSets, TLC

(* ------------------------------ numbers -------------------------------- *)

Num(h) == [nan |-> FALSE, v |-> h]
Whole(n) == Num(2 * n)
NaN == [nan |-> TRUE, v |-> 0]
IsWhole(a) == ~a.nan /\ a.v % 2 = 0
WholeOf(a) == a.v \div 2

FAdd(a, b) == IF a.nan \/ b.nan THEN NaN ELSE Num(a.v + b.v)
FSub(a, b) == IF a.nan \/ b.nan THEN NaN ELSE Num(a.v - b.v)
FMul(a, b) == IF a.nan \/ b.nan THEN NaN ELSE Num((a.v * b.v) \div 2)

\* Math.floor
MathFloor(a) == IF a.nan THEN NaN ELSE Num(2 * (a.v \div 2))
\* Math.trunc (rounding toward zero)
MathTrunc(a) == IF a.nan THEN NaN
                ELSE IF a.v >= 0 THEN Num(2 * (a.v \div 2))
                ELSE Num(0 - 2 * ((0 - a.v) \div 2))

\* x || d : d replaces every falsy number, that is 0 and NaN
OrElse(x, d) == IF x.nan \/ x.v = 0 THEN d ELSE x

RECURSIVE Pow2(_)
Pow2(n) == IF n = 0 THEN 1 ELSE 2 * Pow2(n - 1)

Abs(n) == IF n < 0 THEN 0 - n ELSE n

\* Rounding of a double to the nearest float32 (ties to even), as a store
\* into a Float32Array does.  Below 2^23 every multiple of one half is a
\* float32; from 2^(22+k) on the float32 spacing is 2^k halves.
RECURSIVE Spacing(_, _)
Spacing(a, s) == IF a < 16777216 * s THEN s ELSE Spacing(a, 2 * s)

Fround(x) ==
  IF x.nan THEN NaN
  ELSE LET a == Abs(x.v)
           s == Spacing(a, 1)
           q == a \div s
           r == a % s
           up == (2 * r > s) \/ (2 * r = s /\ q % 2 = 1)
           m == IF up THEN (q + 1) * s ELSE q * s
       IN  Num(IF x.v < 0 THEN 0 - m ELSE m)

(* ------------------------ bytes and byte orders ------------------------ *)

Byte == 0..255

\* The bytes of a field, most significant first, as byte order le stores them.
Stored(sig, le) == IF le THEN [i \in 1..Len(sig) |-> sig[Len(sig) + 1 - i]] ELSE sig
\* The bytes read at a place, most significant first, under byte order le.
Significant(bytes, le) == Stored(bytes, le)

UInt16Of(sig) == 256 * sig[1] + sig[2]
Int16Of(sig) == IF sig[1] >= 128 THEN UInt16Of(sig) - 65536 ELSE UInt16Of(sig)
Int32Of(sig) ==
  (IF sig[1] >= 128 THEN sig[1] - 256 ELSE sig[1]) * 16777216
    + sig[2] * 65536 + sig[3] * 256 + sig[4]

\* IEEE-754 binary32.  Defined for NaN, zero and the normal numbers that are
\* a multiple of one half; no other bit pattern occurs among the inputs.
Float32Of(sig) ==
  LET neg == sig[1] >= 128
      e == (sig[1] % 128) * 2 + (sig[2] \div 128)
      m == (sig[2] % 128) * 65536 + sig[3] * 256 + sig[4]
      f == 8388608 + m
      h == IF e >= 149 THEN f * Pow2(e - 149) ELSE f \div Pow2(149 - e)
  IN  CASE e = 255 /\ m # 0 -> NaN
        [] e = 0 /\ m = 0 -> Num(0)
        [] e > 0 /\ e < 255 /\ (e >= 149 \/ f % Pow2(149 - e) = 0)
             -> Num(IF neg THEN 0 - h ELSE h)

(* ------------------------------ scan file ------------------------------ *)

HeaderSize == 348

\* The response body: no bytes at all, or a 348-byte header (the fields the
\* decoder reads, every other header byte 0) followed by the bytes of tail.
\* No read of the code reaches a byte outside the buffer; ByteAt is 0 there.
ByteLength(f) == IF f.empty THEN 0 ELSE HeaderSize + Len(f.tail)

ByteAt(f, i) ==
  CASE i \in 0..3 -> f.magic[i + 1]
    [] i \in 42..47 -> f.dim[i - 41]
    [] i \in 70..71 -> f.datatype[i - 69]
    [] i \in 80..91 -> f.pixdim[i - 79]
    [] i \in 108..111 -> f.vox_offset[i - 107]
    [] i \in 112..115 -> f.scl_slope[i - 111]
    [] i \in 116..119 -> f.scl_inter[i - 115]
    [] i >= HeaderSize /\ i < ByteLength(f) -> f.tail[i - HeaderSize + 1]
    [] OTHER -> 0

BytesAt(f, off, n) == [k \in 1..n |-> ByteAt(f, off + k - 1)]

\* DataView.getInt32 / getInt16 / getFloat32 (offset, littleEndian)
GetInt32(f, off, le) == Int32Of(Significant(BytesAt(f, off, 4), le))
GetInt16(f, off, le) == Int16Of(Significant(BytesAt(f, off, 2), le))
GetFloat32(f, off, le) == Float32Of(Significant(BytesAt(f, off, 4), le))

\* A DataView read past the end of the buffer throws a RangeError; the last
\* header byte fetchNifti reads is byte 119.
HeaderReadable(f) == ByteLength(f) >= 120

(* ----------------------------- HeaderDecoder --------------------------- *)

IsLittleEndian(f) == GetInt32(f, 0, TRUE) = 348

Dims(f, le) == <<GetInt16(f, 42, le), GetInt16(f, 44, le), GetInt16(f, 46, le)>>

PixDims(f, le) == <<GetFloat32(f, 80, le), GetFloat32(f, 84, le), GetFloat32(f, 88, le)>>

DataType(f, le) == GetInt16(f, 70, le)

\* (mutation) the offset rounded toward zero
VoxOffsetTruncated(f, le) == MathTrunc(GetFloat32(f, 108, le))

VoxOffset(f, le) == MathFloor(GetFloat32(f, 108, le))

\* (mutation) the scale taken as stored, without a default
SclSlopeAsStored(f, le) == GetFloat32(f, 112, le)

SclSlope(f, le) == OrElse(GetFloat32(f, 112, le), Whole(1))

SclInter(f, le) == OrElse(GetFloat32(f, 116, le), Whole(0))

\* (mutation) the voxel count of one slice
NumVoxelsOfSlice(dims) == dims[1] * dims[2]

NumVoxels(dims) == dims[1] * dims[2] * dims[3]

(* ----------------------------- VoxelExtractor -------------------------- *)

\* (mutation) an unknown code is read as bytes instead of being refused
ArrayForLenient(dataType) ==
  CASE dataType = 4 -> "Int16Array"
    [] dataType = 16 -> "Float32Array"
    [] dataType = 512 -> "Uint16Array"
    [] OTHER -> "Uint8Array"

\* The if / else-if chain on dataType: the typed array that reads the
\* payload, or the throw of the final else.
ArrayFor(dataType) ==
  CASE dataType = 2 -> "Uint8Array"
    [] dataType = 4 -> "Int16Array"
    [] dataType = 16 -> "Float32Array"
    [] dataType = 512 -> "Uint16Array"
    [] OTHER -> "throw"

\* BYTES_PER_ELEMENT
ElementWidth(array) ==
  CASE array = "Uint8Array" -> 1
    [] array = "Int16Array" -> 2
    [] array = "Float32Array" -> 4
    [] array = "Uint16Array" -> 2

\* ToIndex of the byteOffset argument: NaN becomes 0, an integer stays.
ToIndex(off) == IF off.nan THEN 0 ELSE WholeOf(off)

\* new TypedArray(buffer, byteOffset, length) throws a RangeError for a
\* negative offset, an offset that is not a multiple of the element width
\* and a view that ends past the end of the buffer.
ViewThrows(f, off, n, w) ==
  \/ ToIndex(off) < 0
  \/ ToIndex(off) % w # 0
  \/ ToIndex(off) + n * w > ByteLength(f)

\* data[i] of the typed array: the element's bytes in the byte order of the
\* platform, whatever the byte order of the file.
ElementAt(f, array, off, i, platformLE) ==
  LET w == ElementWidth(array)
      sig == Significant(BytesAt(f, ToIndex(off) + i * w, w), platformLE)
  IN  CASE array = "Uint8Array" -> Whole(sig[1])
        [] array = "Int16Array" -> Whole(Int16Of(sig))
        [] array = "Float32Array" -> Float32Of(sig)
        [] array = "Uint16Array" -> Whole(UInt16Of(sig))

\* rawValues[i] = data[i] * sclSlope + sclInter, stored in a Float32Array
RawValues(f, array, off, n, slope, inter, platformLE) ==
  [i \in 1..n |->
     Fround(FAdd(FMul(ElementAt(f, array, off, i - 1, platformLE), slope), inter))]

(* ---------------------------- ContrastWindower ------------------------- *)

SampleCap == 10000

Min(a, b) == IF a < b THEN a ELSE b

SampleLen(len) == Min(len, SampleCap)

Stride(len, n) == len \div n

\* sorted[i] = rawValues[i * stride]
Sample(raw) ==
  LET n == SampleLen(Len(raw))
      stride == Stride(Len(raw), n)
  IN  [i \in 1..n |-> raw[(i - 1) * stride + 1]]

\* The order of TypedArray.prototype.sort: ascending, NaN after every number.
Before(a, b) == ~a.nan /\ (b.nan \/ a.v < b.v)

\* sorted.sort(): the ascending arrangement of the sample.
SortAsc(s) == SortSeq(s, Before)

\* (mutation) the median instead of the 5th percentile
LowIndexOfMedian(n) == (n * 50) \div 100

\* Math.floor(sorted.length * 0.05) and Math.floor(sorted.length * 0.995)
LowIndex(n) == (n * 5) \div 100
HighIndex(n) == (n * 995) \div 1000

MinVal(sorted) == sorted[LowIndex(Len(sorted)) + 1]
MaxVal(sorted) == sorted[HighIndex(Len(sorted)) + 1]

\* (mutation) the width taken as min - max
WindowRangeReversed(minVal, maxVal) == OrElse(FSub(minVal, maxVal), Whole(1))

\* (mutation) the width without its fallback
WindowRangeNoFallback(minVal, maxVal) == FSub(maxVal, minVal)

\* range = maxVal - minVal || 1.0
WindowRange(minVal, maxVal) == OrElse(FSub(maxVal, minVal), Whole(1))

(* -------------------------------- Quantizer ---------------------------- *)

\* Math.floor(((raw - minVal) / range) * 255), computed on exact fractions.
\* A division by 0 gives NaN or an infinity; Big stands for +Infinity and
\* -Big for -Infinity, which the clamps below turn into 255 and 0.
Big == Whole(256)

Scaled255(raw, minVal, range) ==
  LET d == FSub(raw, minVal)
  IN  IF d.nan \/ range.nan THEN NaN
      ELSE IF range.v > 0 THEN Whole((255 * d.v) \div range.v)
      ELSE IF range.v < 0 THEN Whole((0 - 255 * d.v) \div (0 - range.v))
      ELSE IF d.v = 0 THEN NaN
      ELSE IF d.v > 0 THEN Big ELSE FSub(Whole(0), Big)

\* Math.min(255, x) and Math.max(0, x): NaN if x is NaN
MathMin255(x) == IF x.nan THEN NaN ELSE IF x.v > 510 THEN Whole(255) ELSE x
MathMax0(x) == IF x.nan THEN NaN ELSE IF x.v < 0 THEN Whole(0) ELSE x

\* A store into a Uint8Array: NaN becomes 0, an integer is taken modulo 256.
ToUint8(x) == IF x.nan THEN 0 ELSE WholeOf(x) % 256

\* (mutation) the scaled value stored without the two clamps
QuantizeUnclamped(raw, minVal, range) ==
  [i \in DOMAIN raw |-> ToUint8(Scaled255(raw[i], minVal, range))]

Quantize(raw, minVal, range) ==
  [i \in DOMAIN raw |-> ToUint8(MathMax0(MathMin255(Scaled255(raw[i], minVal, range))))]

(* -------------------------- SpatialAspectCalculator -------------------- *)

Extent(dims, pixDims, i) == FMul(Whole(dims[i]), pixDims[i])

\* Math.max of three numbers: NaN if one of them is NaN
MathMax3(a, b, c) ==
  IF a.nan \/ b.nan \/ c.nan THEN NaN
  ELSE LET ab == IF a.v >= b.v THEN a ELSE b
       IN  IF ab.v >= c.v THEN ab ELSE c

\* (mutation) the extents divided by the extent of the first axis
AspectRatioByFirstAxis(dims, pixDims) ==
  [i \in 1..3 |-> [num |-> Extent(dims, pixDims, i), den |-> Extent(dims, pixDims, 1)]]

\* aspectRatio[i] = extent[i] / maxDim, kept as the fraction num / den
AspectRatio(dims, pixDims) ==
  LET maxDim == MathMax3(Extent(dims, pixDims, 1), Extent(dims, pixDims, 2),
                         Extent(dims, pixDims, 3))
  IN  [i \in 1..3 |-> [num |-> Extent(dims, pixDims, i), den |-> maxDim]]

(* ------------------- fetchNifti after the buffer arrived --------------- *)

Header(f) ==
  LET le == IsLittleEndian(f)
      dims == Dims(f, le)
  IN  [isLittleEndian |-> le,
       dims |-> dims,
       pixDims |-> PixDims(f, le),
       dataType |-> DataType(f, le),
       voxOffset |-> VoxOffset(f, le),
       sclSlope |-> SclSlope(f, le),
       sclInter |-> SclInter(f, le),
       numVoxels |-> NumVoxels(dims)]

Window(rawValues) ==
  LET sorted == SortAsc(Sample(rawValues))
      minVal == MinVal(sorted)
      maxVal == MaxVal(sorted)
  IN  [sorted |-> sorted, minVal |-> minVal, maxVal |-> maxVal,
       range |-> WindowRange(minVal, maxVal)]

Thrown(stage, err, locals) ==
  [outcome |-> "rejected", stage |-> stage, error |-> err, locals |-> locals]

\* The synchronous part of fetchNifti, from `new DataView(buffer)` to the
\* return: the promise's outcome and the values of the locals at that point.
DecodeNifti(f, platformLE) ==
  IF ~HeaderReadable(f) THEN Thrown("view", "RangeError", [none |-> TRUE])
  ELSE
  LET h == Header(f) IN
  IF h.numVoxels < 0 THEN Thrown("alloc", "RangeError", [h |-> h])
  ELSE IF ArrayFor(h.dataType) = "throw"
    THEN Thrown("datatype", "Unsupported NIfTI DataType", [h |-> h])
  ELSE IF ViewThrows(f, h.voxOffset, h.numVoxels, ElementWidth(ArrayFor(h.dataType)))
    THEN Thrown("typedarray", "RangeError", [h |-> h])
  ELSE
  LET rawValues == RawValues(f, ArrayFor(h.dataType), h.voxOffset, h.numVoxels,
                             h.sclSlope, h.sclInter, platformLE)
  IN
  \* an empty sample: minVal is undefined and minVal.toFixed(2) throws
  IF h.numVoxels = 0 THEN Thrown("log", "TypeError", [h |-> h, rawValues |-> rawValues])
  ELSE
  LET w == Window(rawValues)
  IN  [outcome |-> "resolved",
       stage |-> "return",
       error |-> "",
       locals |-> [h |-> h, rawValues |-> rawValues, w |-> w],
       value |-> [data |-> Quantize(rawValues, w.minVal, w.range),
                  dims |-> h.dims,
                  pixDims |-> h.pixDims,
                  aspectRatio |-> AspectRatio(h.dims, h.pixDims),
                  header |-> [dataType |-> h.dataType, min |-> w.minVal, max |-> w.maxVal]]]

(* ------------------------------ the App -------------------------------- *)

Chan == {"t1", "t2"}

Null == [null |-> TRUE]

VARIABLES
  platformLE,  \* byte order of the machine the page runs on
  file,        \* per scan: the body the server holds for its URL
  net,         \* per scan: how its request ends
  pc,          \* per scan: where its fetchNifti call stands
  promise,     \* per scan: outcome of the fetchNifti promise, with the locals
  loadPc,      \* where loadData stands
  t1Data, t2Data, loading, error,   \* React state of App
  xrSession,   \* whether an immersive session has been entered
  state,       \* React state of App: the MRIState the Dashboard edits
  uniforms,    \* the stable uniforms object of MRIViewer
  viewer,      \* MRIViewer: drag state, refs and the volume group
  slider,      \* one DraggableSlider: drag state, pointer id, reported value
  draw,        \* what one draw call of the volume gives every fragment
  frag         \* one invocation of the fragment shader: position and locals

appVars == <<platformLE, file, net, pc, promise, loadPc,
             t1Data, t2Data, loading, error, xrSession>>

uiVars == <<state, uniforms, viewer, slider>>

vars == <<appVars, uiVars, draw, frag>>

(* ------------------ the render state and the Dashboard ----------------- *)

\* The numbers of the render state are kept as multiples of 1/10000.
PerUnit == 100 * 100

Max(a, b) == IF a < b THEN b ELSE a

\* useState<MRIState> of App
InitialState ==
  [isT1 |-> TRUE,
   thresholdMin |-> 800,           \* 0.08
   thresholdInterval |-> 2700,     \* 0.27
   opacity |-> 15 * PerUnit,
   brightness |-> 12 * PerUnit,
   sliceX |-> PerUnit, sliceY |-> PerUnit, sliceZ |-> PerUnit,
   enableSlicing |-> FALSE,
   isVolumeRendering |-> TRUE,
   colorMap |-> "jet",
   glareIntensity |-> 4000,        \* 0.4
   isPassthrough |-> TRUE,
   useColorMap |-> TRUE]

\* The sliders of the Dashboard that write a field the viewer reads, and
\* the min and max each one is given
SliderLabels == {"THRES MIN", "INTERVAL", "ALPHA", "GAIN", "CLIP X", "CLIP Y", "CLIP Z"}
ClipLabels == {"CLIP X", "CLIP Y", "CLIP Z"}

SliderMin(label) ==
  CASE label = "THRES MIN" -> 100        \* 0.01
    [] label = "INTERVAL" -> 50          \* 0.005
    [] label = "ALPHA" -> 5000           \* 0.5
    [] label = "GAIN" -> PerUnit         \* 1.0
    [] label \in ClipLabels -> 0

SliderMax(label) ==
  CASE label = "THRES MIN" -> 9900       \* 0.99
    [] label = "INTERVAL" -> PerUnit     \* 1.0
    [] label = "ALPHA" -> 15 * PerUnit
    [] label = "GAIN" -> 60 * PerUnit
    [] label \in ClipLabels -> PerUnit

\* (mutation) an INTERVAL handler without the cap at 1 - thresholdMin
OnChangeNoCap(label, v, s) ==
  CASE label = "THRES MIN" -> [s EXCEPT !.thresholdMin = Min(v, 9900)]
    [] label = "INTERVAL" -> [s EXCEPT !.thresholdInterval = Max(50, v)]
    [] label = "ALPHA" -> [s EXCEPT !.opacity = v]
    [] label = "GAIN" -> [s EXCEPT !.brightness = v]
    [] label = "CLIP X" -> [s EXCEPT !.sliceX = v]
    [] label = "CLIP Y" -> [s EXCEPT !.sliceY = v]
    [] label = "CLIP Z" -> [s EXCEPT !.sliceZ = v]

\* The onChange each slider is given: the state the updater passed to
\* setState returns for the state s
OnChange(label, v, s) ==
  CASE label = "THRES MIN" -> [s EXCEPT !.thresholdMin = Min(v, 9900)]
    [] label = "INTERVAL" ->
         [s EXCEPT !.thresholdInterval = Max(50, Min(v, PerUnit - s.thresholdMin))]
    [] label = "ALPHA" -> [s EXCEPT !.opacity = v]
    [] label = "GAIN" -> [s EXCEPT !.brightness = v]
    [] label = "CLIP X" -> [s EXCEPT !.sliceX = v]
    [] label = "CLIP Y" -> [s EXCEPT !.sliceY = v]
    [] label = "CLIP Z" -> [s EXCEPT !.sliceZ = v]

\* Map state.colorMap to the int of the shader
cmap(colorMap) ==
  CASE colorMap = "jet" -> 0
    [] colorMap = "hsv" -> 1
    [] colorMap = "turbo" -> 2
    [] OTHER -> 3

\* (mutation) a threshold-max that is the plain sum
UniformsOfUncapped(s) ==
  [u_thresholdMin |-> s.thresholdMin,
   u_thresholdMax |-> s.thresholdMin + s.thresholdInterval,
   u_opacity |-> s.opacity,
   u_brightness |-> s.brightness,
   u_clipping |-> s.enableSlicing,
   u_clipX |-> s.sliceX, u_clipY |-> s.sliceY, u_clipZ |-> s.sliceZ,
   u_colorMode |-> IF s.isT1 THEN 0 ELSE 1,
   u_colorMap |-> cmap(s.colorMap),
   u_useColorMap |-> s.useColorMap]

\* The values the viewer writes into the uniforms for the state s
UniformsOf(s) ==
  [u_thresholdMin |-> s.thresholdMin,
   u_thresholdMax |-> Min(PerUnit, s.thresholdMin + s.thresholdInterval),
   u_opacity |-> s.opacity,
   u_brightness |-> s.brightness,
   u_clipping |-> s.enableSlicing,
   u_clipX |-> s.sliceX, u_clipY |-> s.sliceY, u_clipZ |-> s.sliceZ,
   u_colorMode |-> IF s.isT1 THEN 0 ELSE 1,
   u_colorMap |-> cmap(s.colorMap),
   u_useColorMap |-> s.useColorMap]

\* the scan whose texture the viewer shows
ActiveChannel(s) == IF s.isT1 THEN "t1" ELSE "t2"

\* The effect that pushes state and texture into the uniforms
PushUniforms(s) == [u_data |-> ActiveChannel(s)] @@ UniformsOf(s)

\* The dependency list of that effect
EffectDeps(s) ==
  <<ActiveChannel(s), s.thresholdMin, s.thresholdInterval, s.opacity, s.brightness,
    s.enableSlicing, s.sliceX, s.sliceY, s.sliceZ, s.isT1>>

\* (mutation) a frame callback that mirrors the fields of the dependency
\* list only
MirrorDepsOnly(u, s) ==
  [name \in DOMAIN u |->
     IF name \in {"u_data", "u_colorMap", "u_useColorMap"} THEN u[name] ELSE UniformsOf(s)[name]]

\* The useFrame callback: every uniform but the texture is written
MirrorUniforms(u, s) ==
  [name \in DOMAIN u |-> IF name = "u_data" THEN u[name] ELSE UniformsOf(s)[name]]

\* A value of a ref or of a state that may be null: Null, or Val of it
Val(x) == [v |-> x]

\* One DraggableSlider as it mounts
IdleSlider == [isDragging |-> FALSE, pointerIdRef |-> Null, newVal |-> Null]

\* The sliders of a Dashboard that has just mounted
MountedSliders == [label \in SliderLabels |-> IdleSlider]

(* ------------------------- the viewer's corners ------------------------ *)

\* Positions are kept in centimetres and scales in thousandths.
Vector3(x, y, z) == <<x, y, z>>

\* MRIViewer as it mounts: its state, its refs, and the position, the scale
\* and the rotation of the volume group, which turns by one step with every
\* frame. timer is the pending callback of the grace timer, with the
\* isDraggingCorner of the render that created it.
MountedViewer ==
  [rotation |-> 0,
   isDraggingCorner |-> FALSE,
   hoveredCorner |-> Null,
   activeCornerRef |-> Null,
   dragModeRef |-> Null,
   pointerIdRef |-> Null,
   selectActiveRef |-> FALSE,
   selectEndTimeoutRef |-> Null,
   timer |-> Null,
   dragPlaneRef |-> Null,
   dragOffsetLocalRef |-> Null,
   initialGroupPosRef |-> Null,
   initialScaleRef |-> Null,
   position |-> Vector3(0, 0, 0),
   scale |-> Vector3(1000, 1000, 1000)]

\* InteractiveSuite is rendered for the first time: MRIViewer and Dashboard
\* mount and the effect of MRIViewer pushes the state into the uniforms.
Mount ==
  /\ uniforms' = PushUniforms(state)
  /\ viewer' = MountedViewer
  /\ slider' = MountedSliders
  /\ UNCHANGED state

\* InteractiveSuite is no longer rendered
Unmount ==
  /\ uniforms' = Null
  /\ viewer' = Null
  /\ slider' = Null
  /\ UNCHANGED state

\* App has mounted and InteractiveSuite is not rendered yet
InitUI ==
  /\ state = InitialState
  /\ uniforms = Null
  /\ viewer = Null
  /\ slider = Null

\* InteractiveSuite has just been rendered for the first time
MountedUI ==
  /\ state = InitialState
  /\ uniforms = PushUniforms(InitialState)
  /\ viewer = MountedViewer
  /\ slider = MountedSliders

(* ------------------------- the handlers of App ------------------------- *)

Pending == [outcome |-> "pending"]

\* `await fetch(url)` settles: a network failure rejects the call, a
\* response that is not ok makes it throw, otherwise it awaits the body.
FetchSettles(c) ==
  /\ pc[c] = "fetch"
  /\ IF net[c] = "ok"
       THEN /\ pc' = [pc EXCEPT ![c] = "body"]
            /\ UNCHANGED promise
       ELSE /\ pc' = [pc EXCEPT ![c] = "rejected"]
            /\ promise' = [promise EXCEPT ![c] =
                 Thrown("fetch", IF net[c] = "http_error" THEN "Fetch failed"
                                 ELSE "Failed to fetch", [none |-> TRUE])]
  /\ UNCHANGED <<uiVars, draw, frag, platformLE, file, net, loadPc, t1Data, t2Data, loading, error, xrSession>>

\* `await response.arrayBuffer()` delivers the bytes and the rest of
\* fetchNifti runs to its return or to the statement that throws.
BufferArrives(c) ==
  /\ pc[c] = "body"
  /\ LET r == DecodeNifti(file[c], platformLE)
     IN  /\ promise' = [promise EXCEPT ![c] = r]
         /\ pc' = [pc EXCEPT ![c] = r.outcome]
  /\ UNCHANGED <<uiVars, draw, frag, platformLE, file, net, loadPc, t1Data, t2Data, loading, error, xrSession>>

\* Promise.all fulfils when both calls have fulfilled; loadData goes on
\* with setT1Data(t1).
SetT1Data ==
  /\ loadPc = "await"
  /\ \A c \in Chan : pc[c] = "resolved"
  /\ t1Data' = promise["t1"].value
  /\ loadPc' = "setT2Data"
  /\ UNCHANGED <<uiVars, draw, frag, platformLE, file, net, pc, promise, t2Data, loading, error, xrSession>>

SetT2Data ==
  /\ loadPc = "setT2Data"
  /\ t2Data' = promise["t2"].value
  /\ loadPc' = "setLoading"
  /\ UNCHANGED <<uiVars, draw, frag, platformLE, file, net, pc, promise, t1Data, loading, error, xrSession>>

\* setLoading(false), the last statement of both branches of loadData
SetLoading ==
  /\ loadPc = "setLoading"
  /\ loading' = FALSE
  /\ loadPc' = "done"
  /\ IF error = Null THEN Mount ELSE UNCHANGED uiVars
  /\ UNCHANGED <<draw, frag, platformLE, file, net, pc, promise, t1Data, t2Data, error, xrSession>>

\* (mutation) a catch block that only clears the loading flag
CatchWithoutSetError ==
  /\ loadPc = "await"
  /\ \E c \in Chan : pc[c] = "rejected"
  /\ loadPc' = "setLoading"
  /\ UNCHANGED <<uiVars, draw, frag, platformLE, file, net, pc, promise, t1Data, t2Data, loading, error, xrSession>>

\* Promise.all rejects as soon as one call has rejected; the catch block
\* runs setError(err.message || 'Diagnostic Sync Failure').
CatchSetError ==
  /\ loadPc = "await"
  /\ \E c \in Chan :
       /\ pc[c] = "rejected"
       /\ error' = [message |-> promise[c].error]
  /\ loadPc' = "setLoading"
  /\ UNCHANGED <<uiVars, draw, frag, platformLE, file, net, pc, promise, t1Data, t2Data, loading, xrSession>>

\* (mutation) a render that shows the viewer whenever loading is over
ViewerRenderedAfterLoad == ~loading

\* What the render shows
ViewerRendered == ~loading /\ error = Null
EnterButtonShown == ~loading /\ error = Null

XROutcome == {"no_xr", "entered", "unsupported", "rejected"}

XRMessage(o) ==
  CASE o = "no_xr" -> "WebXR not available"
    [] o = "unsupported" -> "Passthrough (immersive-ar) not supported"
    [] o = "rejected" -> "WebXR session could not start"

\* A click on the Enter button: handleEnterXR
HandleEnterXR ==
  /\ EnterButtonShown
  /\ \E o \in XROutcome :
       IF o = "entered"
         THEN xrSession' = TRUE /\ UNCHANGED <<error, uiVars>>
         ELSE error' = [message |-> XRMessage(o)] /\ Unmount /\ UNCHANGED xrSession
  /\ UNCHANGED <<draw, frag, platformLE, file, net, pc, promise, loadPc, t1Data, t2Data, loading>>

Next ==
  \/ \E c \in Chan : FetchSettles(c)
  \/ \E c \in Chan : BufferArrives(c)
  \/ SetT1Data
  \/ SetT2Data
  \/ SetLoading
  \/ CatchSetError
  \/ HandleEnterXR

(* ------------------- numbers of the fragment shader -------------------- *)

\* Distances and positions of a ray are kept as exact fractions n / d, d > 0.
RECURSIVE Gcd(_, _)
Gcd(a, b) == IF b = 0 THEN a ELSE Gcd(b, a % b)

Rat(n, d) ==
  LET s == IF d < 0 THEN 0 - 1 ELSE 1
      g == Gcd(Abs(n), Abs(d))
  IN  [n |-> (s * n) \div g, d |-> (s * d) \div g]

RInt(k) == [n |-> k, d |-> 1]
RAdd(x, y) ==
  LET g == Gcd(x.d, y.d)
  IN  Rat(x.n * (y.d \div g) + y.n * (x.d \div g), (x.d \div g) * y.d)
RSub(x, y) == RAdd(x, [n |-> 0 - y.n, d |-> y.d])
RMul(x, y) ==
  LET g1 == Gcd(Abs(x.n), y.d)
      g2 == Gcd(Abs(y.n), x.d)
  IN  IF x.n = 0 \/ y.n = 0 THEN [n |-> 0, d |-> 1]
      ELSE [n |-> (x.n \div g1) * (y.n \div g2), d |-> (x.d \div g2) * (y.d \div g1)]
RDiv(x, y) == RMul(x, Rat(y.d, y.n))
RLt(x, y) ==
  LET g == Gcd(x.d, y.d)
  IN  x.n * (y.d \div g) < y.n * (x.d \div g)
RLe(x, y) == ~RLt(y, x)
RMax(x, y) == IF RLt(x, y) THEN y ELSE x
RMin(x, y) == IF RLt(y, x) THEN y ELSE x
RFloor(x) == x.n \div x.d

\* A float that may be infinite: inf is -1, 0 or 1 and q the value when
\* inf = 0.  1.0 / 0.0 is +Infinity.
Fin(q) == [inf |-> 0, q |-> q]
Inf(s) == [inf |-> s, q |-> RInt(0)]
Sign(q) == IF q.n > 0 THEN 1 ELSE IF q.n < 0 THEN 0 - 1 ELSE 0

XInv(q) == IF q.n = 0 THEN Inf(1) ELSE Fin(RDiv(RInt(1), q))

\* finite * x; the product 0 * Infinity (NaN) has no case here: no ray of
\* the model starts on a face plane of the box with a direction parallel to it
XMul(q, x) ==
  CASE x.inf = 0 -> Fin(RMul(q, x.q))
    [] x.inf # 0 /\ q.n # 0 -> Inf(Sign(q) * x.inf)

XLt(x, y) ==
  CASE x.inf = 0 /\ y.inf = 0 -> RLt(x.q, y.q)
    [] x.inf # 0 /\ y.inf = 0 -> x.inf < 0
    [] x.inf = 0 /\ y.inf # 0 -> y.inf > 0
    [] OTHER -> x.inf < y.inf

\* min(x, y) = y < x ? y : x and max(x, y) = x < y ? y : x
XMin(x, y) == IF XLt(y, x) THEN y ELSE x
XMax(x, y) == IF XLt(x, y) THEN y ELSE x

\* The colour arithmetic is kept in binary fixed point with 24 fractional
\* bits, the resolution of a float just below 1.0; products and quotients
\* are cut toward zero.
One == Pow2(24)
Limb == Pow2(12)

\* a * b for 0 <= a, b, the larger below 2^30 and the smaller at most 2.0
MulMag(a, b) ==
  LET x == IF a < b THEN b ELSE a
      y == IF a < b THEN a ELSE b
      xh == x \div Limb
      xl == x % Limb
      yh == y \div Limb
      yl == y % Limb
  IN  xh * yh + ((xh * yl + xl * yh + ((xl * yl) \div Limb)) \div Limb)

FMulX(x, y) ==
  LET m == MulMag(Abs(x), Abs(y))
  IN  IF (x < 0) = (y < 0) THEN m ELSE 0 - m

\* the first k binary digits of r / d, 0 <= r < d
RECURSIVE FracBits(_, _, _)
FracBits(r, d, k) ==
  IF k = 0 THEN 0
  ELSE IF 2 * r >= d THEN Pow2(k - 1) + FracBits(2 * r - d, d, k - 1)
       ELSE FracBits(2 * r, d, k - 1)

\* n / d for n >= 0, d > 0
DivMag(n, d) == (n \div d) * One + FracBits(n % d, d, 24)

\* the fraction q as a fixed-point number
Fix(q) == IF q.n >= 0 THEN DivMag(q.n, q.d) ELSE 0 - DivMag(0 - q.n, q.d)

\* x / y for fixed-point x and y > 0
FDivX(x, y) == IF x >= 0 THEN DivMag(x, y) ELSE 0 - DivMag(0 - x, y)

\* clamp(x, lo, hi) = min(max(x, lo), hi)
clamp(x, lo, hi) ==
  LET m == IF x < lo THEN lo ELSE x
  IN  IF hi < m THEN hi ELSE m

\* mix(a, b, t) = a * (1 - t) + b * t
mix(a, b, t) == FMulX(a, One - t) + FMulX(b, t)

\* fract(x) = x - floor(x)
fract(x) == x - (x \div One) * One

\* smoothstep(e0, e1, x): t = clamp((x - e0) / (e1 - e0), 0, 1); t * t * (3 - 2 t)
smoothstep(e0, e1, x) ==
  LET t == clamp(FDivX(x - e0, e1 - e0), 0, One)
  IN  FMulX(FMulX(t, t), 3 * One - 2 * t)

\* x^5
Pow5(y) == FMulX(FMulX(FMulX(FMulX(y, y), y), y), y)

\* the smallest y in lo..hi with y^5 >= c, by bisection
RECURSIVE Root5(_, _, _)
Root5(c, lo, hi) ==
  IF lo >= hi THEN lo
  ELSE LET mid == (lo + hi) \div 2
       IN  IF Pow5(mid) >= c THEN Root5(c, lo, mid) ELSE Root5(c, mid + 1, hi)

\* pow(x, 0.4) for 0 <= x <= 1: the fifth root of x * x
pow04(x) == Root5(FMulX(x, x), 0, One)

(* ----------------------- VolumeShader: the sampler --------------------- *)

\* A Data3DTexture of unsigned bytes: texel (x, y, z) is data[x + w (y + h z)]
Texel(tex, x, y, z) == tex.data[x + tex.dims[1] * (y + tex.dims[2] * z) + 1]

\* One axis of a LinearFilter lookup with ClampToEdgeWrapping: the two
\* texels around coordinate u of an axis of n texels and the weight of the
\* second one.
Tap(u, n) ==
  LET c == RSub(RMul(u, RInt(n)), Rat(1, 2))
      i0 == RFloor(c)
      edge(i) == IF i < 0 THEN 0 ELSE IF i > n - 1 THEN n - 1 ELSE i
  IN  [lo |-> edge(i0), hi |-> edge(i0 + 1), f |-> RSub(c, RInt(i0))]

Lerp(a, b, f) == RAdd(a, RMul(RSub(b, a), f))

\* texture(tex, uvw).r: the bytes blended along x, then y, then z, and
\* normalised to [0, 1]
texture(tex, uvw) ==
  LET tx == Tap(uvw[1], tex.dims[1])
      ty == Tap(uvw[2], tex.dims[2])
      tz == Tap(uvw[3], tex.dims[3])
      row(y, z) == Lerp(RInt(Texel(tex, tx.lo, y, z)), RInt(Texel(tex, tx.hi, y, z)), tx.f)
      slice(z) == Lerp(row(ty.lo, z), row(ty.hi, z), ty.f)
  IN  Fix(RDiv(Lerp(slice(tz.lo), slice(tz.hi), tz.f), RInt(255)))

(* ---------------------- VolumeShader: colour maps ---------------------- *)

Dec(n, d) == Fix(Rat(n, d))

K_y == Dec(2, 3)
K_z == Dec(1, 3)

\* hsv2rgb(vec3(h, 1.0, 1.0)), one component per entry of K.xyz
hsv2rgb(h, s, v) ==
  LET p(k) == Abs(6 * fract(h + k) - 3 * One)
      rgb(k) == FMulX(v, mix(One, clamp(p(k) - One, 0, One), s))
  IN  <<rgb(One), rgb(K_y), rgb(K_z)>>

mix3(a, b, t) == [k \in 1..3 |-> mix(a[k], b[k], t)]

Turbo1 == <<Dec(19, 100), Dec(7, 100), Dec(23, 100)>>
Turbo2 == <<Dec(7, 100), Dec(62, 100), Dec(95, 100)>>
Turbo3 == <<Dec(90, 100), Dec(90, 100), Dec(10, 100)>>
Turbo4 == <<Dec(80, 100), Dec(20, 100), Dec(10, 100)>>
Inferno1 == <<0, 0, 0>>
Inferno2 == <<Dec(22, 100), Dec(2, 100), Dec(19, 100)>>
Inferno3 == <<Dec(88, 100), Dec(19, 100), Dec(12, 100)>>
Inferno4 == <<One, Dec(98, 100), Dec(80, 100)>>

JetBand(t, centre) ==
  clamp(Dec(3, 2) - Abs(4 * (t - centre)), 0, One)

colorMapFn(mapId, t0) ==
  LET t == clamp(t0, 0, One)
  IN  CASE mapId = 0 ->
             <<JetBand(t, Dec(3, 4)), JetBand(t, Dec(1, 2)), JetBand(t, Dec(1, 4))>>
        [] mapId = 1 -> hsv2rgb(t, One, One)
        [] mapId = 2 ->
             LET a == mix3(Turbo1, Turbo2, smoothstep(0, Dec(35, 100), t))
                 b == mix3(Turbo3, Turbo4, smoothstep(Dec(65, 100), One, t))
             IN  mix3(a, b, smoothstep(Dec(35, 100), Dec(65, 100), t))
        [] mapId = 3 ->
             LET a == mix3(Inferno1, Inferno2, smoothstep(0, Dec(25, 100), t))
                 b == mix3(Inferno3, Inferno4, smoothstep(Dec(55, 100), One, t))
             IN  mix3(a, b, smoothstep(Dec(25, 100), Dec(55, 100), t))
        [] OTHER -> <<t, t, t>>

(* ------------------------ VolumeShader: hitBox ------------------------- *)

\* the integer k with k * k = n (the rays of the model have such a length)
Sqrt(n) == CHOOSE k \in 0..n : k * k = n

\* normalize(v) = v / length(v)
normalize(v) ==
  LET len == Sqrt(v[1] * v[1] + v[2] * v[2] + v[3] * v[3])
  IN  [k \in 1..3 |-> Rat(v[k], len)]

box_min == Rat(0 - 1, 2)
box_max == Rat(1, 2)

\* vec2(t0, t1): entry and exit distance of the ray on the slabs of the box
hitBox(orig, dir) ==
  LET inv_dir == [k \in 1..3 |-> XInv(dir[k])]
      tmin_tmp == [k \in 1..3 |-> XMul(RSub(box_min, orig[k]), inv_dir[k])]
      tmax_tmp == [k \in 1..3 |-> XMul(RSub(box_max, orig[k]), inv_dir[k])]
      tmin == [k \in 1..3 |-> XMin(tmin_tmp[k], tmax_tmp[k])]
      tmax == [k \in 1..3 |-> XMax(tmin_tmp[k], tmax_tmp[k])]
      t0 == XMax(tmin[1], XMax(tmin[2], tmin[3]))
      t1 == XMin(tmax[1], XMin(tmax[2], tmax[3]))
  IN  <<t0, t1>>

(* ------------------------- VolumeShader: main -------------------------- *)

MAX_STEPS == 160

NoDraw == [none |-> TRUE]
NoFragment == [pc |-> "none"]

ZeroAccum == [rgb |-> <<0, 0, 0>>, a |-> 0]

\* (mutation) the box test without the test for a box behind the camera
MissesInFrontOnly(t_hit) == XLt(t_hit[2], t_hit[1])

\* t_hit.x > t_hit.y || t_hit.y < 0.0
Misses(t_hit) == XLt(t_hit[2], t_hit[1]) \/ XLt(t_hit[2], Fin(RInt(0)))

\* t_start = max(t_hit.x, 0.0)
StartOf(t_hit) == XMax(t_hit[1], Fin(RInt(0))).q

\* uvw of the sample at distance t: localPos + 0.5 with the y axis flipped
UvwAt(d, t) ==
  LET rayDir == normalize(d.vDirection)
      localPos == [k \in 1..3 |-> RAdd(d.vOrigin[k], RMul(rayDir[k], t))]
      uvw == [k \in 1..3 |-> RAdd(localPos[k], Rat(1, 2))]
  IN  <<uvw[1], RSub(RInt(1), uvw[2]), uvw[3]>>

\* (mutation) the clip test without the enable flag
IsClippedAlways(d, uvw) ==
  RLt(d.u_clipX, uvw[1]) \/ RLt(d.u_clipY, uvw[2]) \/ RLt(d.u_clipZ, uvw[3])

\* u_clipping && (uvw.x > u_clipX || uvw.y > u_clipY || uvw.z > u_clipZ);
\* the fusion shader has no clip test
IsClipped(d, uvw) ==
  /\ d.shader = "single"
  /\ d.u_clipping
  /\ (RLt(d.u_clipX, uvw[1]) \/ RLt(d.u_clipY, uvw[2]) \/ RLt(d.u_clipZ, uvw[3]))

\* (mutation) a mix that takes the two textures in the other order
ValAtSwapped(d, uvw) ==
  IF d.shader = "single" THEN texture(d.u_data, uvw)
  ELSE mix(texture(d.u_data, uvw), texture(d.u_data2, uvw), clamp(d.u_mixT1T2, 0, One))

\* val of a sample: the texture, or the mix of the two textures
ValAt(d, uvw) ==
  IF d.shader = "single" THEN texture(d.u_data, uvw)
  ELSE mix(texture(d.u_data2, uvw), texture(d.u_data, uvw), clamp(d.u_mixT1T2, 0, One))

\* (mutation) a band test without the upper threshold
InBandLowOnly(d, val) == val >= d.u_thresholdMin

\* val >= u_thresholdMin && val <= u_thresholdMax
InBand(d, val) == val >= d.u_thresholdMin /\ val <= d.u_thresholdMax

MinDenom == Dec(1, 100000)

\* (mutation) the per-step opacity with the factor 0.0002
AlphaOfTenth(d, edge) == FMulX(FMulX(edge, d.u_opacity), Dec(2, 10000))

\* alpha of a sample in the band
AlphaOf(d, edge) ==
  LET a == FMulX(FMulX(edge, d.u_opacity), Dec(2, 1000))
  IN  IF d.shader = "single" THEN a
      ELSE LET gain == IF d.u_brightness < 0 THEN 0 ELSE d.u_brightness
               alphaGain == Dec(1, 2) + FMulX(Dec(1, 2), clamp(gain, 0, One))
               density == IF d.u_density < 0 THEN 0 ELSE d.u_density
           IN  FMulX(FMulX(a, density), alphaGain)

\* (mutation) the colour without the cap of the gain at 4.0
ColorOfUncapped(d, enhanced) ==
  LET base == IF d.shader = "single" /\ d.u_useColorMap
                THEN colorMapFn(d.u_colorMap, enhanced)
                ELSE <<enhanced, enhanced, enhanced>>
  IN  [k \in 1..3 |-> FMulX(base[k], d.u_brightness)]

\* color of a sample in the band
ColorOf(d, enhanced) ==
  IF d.shader = "single"
    THEN LET base == IF d.u_useColorMap THEN colorMapFn(d.u_colorMap, enhanced)
                     ELSE <<enhanced, enhanced, enhanced>>
         IN  [k \in 1..3 |-> FMulX(base[k], d.u_brightness)]
    ELSE LET gain == IF d.u_brightness < 0 THEN 0 ELSE d.u_brightness
             g4 == IF gain < 4 * One THEN gain ELSE 4 * One
         IN  [k \in 1..3 |-> FMulX(enhanced, g4)]

\* accum.rgb += (1.0 - accum.a) * color * alpha; accum.a += (1.0 - accum.a) * alpha
Blend(accum, color, alpha) ==
  [rgb |-> [k \in 1..3 |-> accum.rgb[k] + FMulX(FMulX(One - accum.a, color[k]), alpha)],
   a |-> accum.a + FMulX(One - accum.a, alpha)]

\* clamp(x / denom, 0.0, 1.0) for denom > 0; a quotient of 1.0 or more is
\* not formed, its clamp is 1.0
ClampedRatio(x, denom) == IF x >= denom THEN One ELSE clamp(FDivX(x, denom), 0, One)

\* the value of a local of the shader, computed once where it is declared
Only(S) == CHOOSE x \in S : TRUE

\* lines 141 to 146: alpha, color and the two += on accum
Integrate(d, norm, accum) ==
  Only({ Blend(accum, ColorOf(d, enhanced), AlphaOf(d, edge)) :
           edge \in {smoothstep(0, One, FMulX(norm - Dec(15, 100), Dec(17, 10)))},
           enhanced \in {pow04(norm)} })

\* the band test on val and what it guards
BandPass(d, val, accum) ==
  IF ~InBand(d, val) THEN accum
  ELSE LET span == d.u_thresholdMax - d.u_thresholdMin
           denom == IF span < MinDenom THEN MinDenom ELSE span
       IN  Only({ Integrate(d, norm, accum) :
                    norm \in {ClampedRatio(val - d.u_thresholdMin, denom)} })

\* The body of the loop up to the saturation test: accum after the sample
\* at distance t.
StepAccum(d, t, accum) ==
  Only({ IF IsClipped(d, uvw) THEN accum
         ELSE Only({ BandPass(d, val, accum) : val \in {ValAt(d, uvw)} }) :
           uvw \in {UvwAt(d, t)} })

Saturated == Dec(95, 100)
Visible == Dec(1, 100)

\* main() up to the loop: the box test, then the locals of the march
MainHitTest ==
  /\ frag.pc = "main"
  /\ LET t_hit == hitBox(draw.vOrigin, normalize(draw.vDirection))
     IN  IF Misses(t_hit)
           THEN frag' = [pc |-> "discarded", t_hit |-> t_hit]
           ELSE LET t_start == StartOf(t_hit)
                    t_end == t_hit[2].q
                IN  frag' = [pc |-> "loop", t_hit |-> t_hit,
                             t_step |-> RDiv(RSub(t_end, t_start), RInt(MAX_STEPS)),
                             accum |-> ZeroAccum, t |-> t_start, i |-> 0, steps |-> 0]
  /\ UNCHANGED <<appVars, uiVars, draw>>

\* (mutation) a loop that goes on after saturation
LoopStepNoBreak ==
  /\ frag.pc = "loop"
  /\ frag.i < MAX_STEPS
  /\ frag' = [frag EXCEPT !.accum = StepAccum(draw, frag.t, frag.accum),
                          !.steps = @ + 1, !.i = @ + 1, !.t = RAdd(@, frag.t_step)]
  /\ UNCHANGED <<appVars, uiVars, draw>>

\* One pass through the body of the for loop: the sample, then the break
\* on saturation or t += t_step and i++.
LoopStep ==
  /\ frag.pc = "loop"
  /\ frag.i < MAX_STEPS
  /\ \E accum \in {StepAccum(draw, frag.t, frag.accum)} :
       IF accum.a >= Saturated
         THEN frag' = [frag EXCEPT !.accum = accum, !.steps = @ + 1, !.pc = "after"]
         ELSE frag' = [frag EXCEPT !.accum = accum, !.steps = @ + 1,
                                   !.i = @ + 1, !.t = RAdd(@, frag.t_step)]
  /\ UNCHANGED <<appVars, uiVars, draw>>

\* the loop condition i < MAX_STEPS fails
LoopExit ==
  /\ frag.pc = "loop"
  /\ frag.i >= MAX_STEPS
  /\ frag' = [frag EXCEPT !.pc = "after"]
  /\ UNCHANGED <<appVars, uiVars, draw>>

\* (mutation) the result written whatever its alpha
MainFinishNoDiscard ==
  /\ frag.pc = "after"
  /\ frag' = [pc |-> "written", gl_FragColor |-> frag.accum] @@ frag
  /\ UNCHANGED <<appVars, uiVars, draw>>

\* if (accum.a < 0.01) discard; gl_FragColor = vec4(accum.rgb, accum.a)
MainFinish ==
  /\ frag.pc = "after"
  /\ IF frag.accum.a < Visible
       THEN frag' = [frag EXCEPT !.pc = "discarded"]
       ELSE frag' = [pc |-> "written", gl_FragColor |-> frag.accum] @@ frag
  /\ UNCHANGED <<appVars, uiVars, draw>>

NextRay ==
  \/ MainHitTest
  \/ LoopStep
  \/ LoopExit
  \/ MainFinish

(* --------------------- Dashboard, sliders and frames ------------------- *)

\* setState of App with the state s: App renders again, and the effect of
\* MRIViewer runs when one of its dependencies has changed.
SetState(s) ==
  /\ state' = s
  /\ uniforms' = IF EffectDeps(s) # EffectDeps(state) THEN PushUniforms(s) ELSE uniforms

\* DraggableSlider.update for a pointer at rawX, in hundredths of the track
\* width from its left end: the value handed to onChange
update(label, rawX) ==
  LET clampedX == Max(0, Min(100, rawX))
  IN  SliderMin(label) + (clampedX * (SliderMax(label) - SliderMin(label))) \div 100

\* the slider of this label is part of the rendered Dashboard
SliderMounted(label) ==
  /\ ViewerRendered
  /\ label \in ClipLabels => state.enableSlicing

\* Where a pointer can be on a track: left of it, in the middle, right of it
TrackPoints == {0 - 50, 50, 150}

\* Where the drags of the Dashboard end: at the end of the track that is
\* away from the initial value
DragEnds(label) == IF label \in ClipLabels \cup {"ALPHA"} THEN {0 - 50} ELSE {150}

\* The onChange of one slider is called by a drag on it
SliderChange(label) ==
  /\ SliderMounted(label)
  /\ \E rawX \in DragEnds(label) : SetState(OnChange(label, update(label, rawX), state))
  /\ UNCHANGED <<appVars, viewer, slider, draw, frag>>

\* (mutation) a modality switch whose texture is built by scaling the data
\* array of the scan it switches to in place
ToggleModalityInPlace ==
  /\ ViewerRendered
  /\ SetState([state EXCEPT !.isT1 = ~state.isT1])
  /\ IF state.isT1
       THEN /\ t2Data' = [t2Data EXCEPT !.data = [i \in DOMAIN @ |-> @[i] \div 2]]
            /\ UNCHANGED t1Data
       ELSE /\ t1Data' = [t1Data EXCEPT !.data = [i \in DOMAIN @ |-> @[i] \div 2]]
            /\ UNCHANGED t2Data
  /\ UNCHANGED <<platformLE, file, net, pc, promise, loadPc, loading, error, xrSession>>
  /\ UNCHANGED <<viewer, slider, draw, frag>>

\* The button of the modality
ToggleModality ==
  /\ ViewerRendered
  /\ SetState([state EXCEPT !.isT1 = ~state.isT1])
  /\ UNCHANGED <<appVars, viewer, slider, draw, frag>>

ColorMaps == {"jet", "hsv", "turbo", "inferno"}

\* The four buttons of the colour map
SetColorMap ==
  /\ ViewerRendered
  /\ \E m \in ColorMaps : SetState([state EXCEPT !.colorMap = m])
  /\ UNCHANGED <<appVars, viewer, slider, draw, frag>>

\* The GRADIENT button
ToggleGradient ==
  /\ ViewerRendered
  /\ SetState([state EXCEPT !.useColorMap = ~state.useColorMap])
  /\ UNCHANGED <<appVars, viewer, slider, draw, frag>>

\* The PLANAR_CLIP button: the three CLIP sliders mount or unmount with it
ToggleSlicing ==
  /\ ViewerRendered
  /\ SetState([state EXCEPT !.enableSlicing = ~state.enableSlicing])
  /\ slider' = [label \in SliderLabels |->
                  IF label \in ClipLabels THEN IdleSlider ELSE slider[label]]
  /\ UNCHANGED <<appVars, viewer, draw, frag>>

\* The frames a behaviour goes through
MaxFrames == 2

\* One frame: the useFrame callback of MRIViewer, after which the frame is
\* drawn with the uniforms
UseFrame ==
  /\ ViewerRendered
  /\ viewer.rotation < MaxFrames
  /\ uniforms' = MirrorUniforms(uniforms, state)
  /\ viewer' = [viewer EXCEPT !.rotation = @ + 1]
  /\ UNCHANGED <<appVars, state, slider, draw, frag>>

PointerIds == {1, 2}

\* the pointer is not captured by another slider
FreeFor(label, pointerId) ==
  \A other \in SliderLabels \ {label} : slider[other].pointerIdRef # Val(pointerId)

\* DraggableSlider.handlePointerDown; setPointerCapture may throw
HandlePointerDown(label, pointerId) ==
  /\ SliderMounted(label)
  /\ FreeFor(label, pointerId)
  /\ \E rawX \in TrackPoints, throws \in BOOLEAN :
       IF slider[label].pointerIdRef # Null \/ throws
         THEN UNCHANGED <<state, uniforms, slider>>
         ELSE /\ slider' = [slider EXCEPT ![label] =
                              [isDragging |-> TRUE, pointerIdRef |-> Val(pointerId),
                               newVal |-> Val(update(label, rawX))]]
              /\ SetState(OnChange(label, update(label, rawX), state))
  /\ UNCHANGED <<appVars, viewer, draw, frag>>

\* (mutation) a handlePointerMove that does not compare the pointer id
HandlePointerMoveOfAny(label, pointerId) ==
  /\ SliderMounted(label)
  /\ FreeFor(label, pointerId)
  /\ \E rawX \in TrackPoints :
       IF slider[label].isDragging
         THEN /\ slider' = [slider EXCEPT ![label].newVal = Val(update(label, rawX))]
              /\ SetState(OnChange(label, update(label, rawX), state))
         ELSE UNCHANGED <<state, uniforms, slider>>
  /\ UNCHANGED <<appVars, viewer, draw, frag>>

\* DraggableSlider.handlePointerMove
HandlePointerMove(label, pointerId) ==
  /\ SliderMounted(label)
  /\ FreeFor(label, pointerId)
  /\ \E rawX \in TrackPoints :
       IF slider[label].isDragging /\ Val(pointerId) = slider[label].pointerIdRef
         THEN /\ slider' = [slider EXCEPT ![label].newVal = Val(update(label, rawX))]
              /\ SetState(OnChange(label, update(label, rawX), state))
         ELSE UNCHANGED <<state, uniforms, slider>>
  /\ UNCHANGED <<appVars, viewer, draw, frag>>

\* DraggableSlider.handlePointerUp, which is the handler of pointer-cancel
\* too; releasePointerCapture may throw
HandlePointerUp(label, pointerId) ==
  /\ SliderMounted(label)
  /\ FreeFor(label, pointerId)
  /\ \E throws \in BOOLEAN :
       IF Val(pointerId) = slider[label].pointerIdRef /\ ~throws
         THEN slider' = [slider EXCEPT ![label].pointerIdRef = Null,
                                       ![label].isDragging = FALSE]
         ELSE UNCHANGED slider
  /\ UNCHANGED <<appVars, state, uniforms, viewer, draw, frag>>

NextDashboard ==
  \/ \E label \in SliderLabels : SliderChange(label)
  \/ ToggleModality
  \/ SetColorMap
  \/ ToggleGradient
  \/ ToggleSlicing
  \/ UseFrame

\* The sliders of the thresholds
ThresholdLabels == {"THRES MIN", "INTERVAL"}

NextSlider ==
  \/ \E label \in ThresholdLabels, pointerId \in PointerIds : HandlePointerDown(label, pointerId)
  \/ \E label \in ThresholdLabels, pointerId \in PointerIds : HandlePointerMove(label, pointerId)
  \/ \E label \in ThresholdLabels, pointerId \in PointerIds : HandlePointerUp(label, pointerId)
  \/ UseFrame

(* ------------------------ the corners of the volume -------------------- *)

\* Math.sqrt, rounded down
RECURSIVE SqrtBetween(_, _, _)
SqrtBetween(lo, hi, n) ==
  IF hi - lo <= 1 THEN lo
  ELSE LET mid == (lo + hi) \div 2
       IN  IF mid * mid <= n THEN SqrtBetween(mid, hi, n) ELSE SqrtBetween(lo, mid, n)

SqrtFloor(n) == SqrtBetween(0, Min(n + 1, 46340), n)

\* a / b rounded to the nearest integer, b > 0
RoundDiv(a, b) == IF a >= 0 THEN (2 * a + b) \div (2 * b) ELSE 0 - ((2 * (0 - a) + b) \div (2 * b))

V3Add(a, b) == [k \in 1..3 |-> a[k] + b[k]]
V3Sub(a, b) == [k \in 1..3 |-> a[k] - b[k]]
V3Length(a) == SqrtFloor(a[1] * a[1] + a[2] * a[2] + a[3] * a[3])

\* The parent of the volume group: the group of scale 0.7 inside the
\* InteractiveSuite at (0, 1.35, -0.9)
SuiteOrigin == Vector3(0, 135, 0 - 90)
localToWorld(v) == [k \in 1..3 |-> RoundDiv(7 * v[k], 10) + SuiteOrigin[k]]
worldToLocal(w) == [k \in 1..3 |-> RoundDiv(10 * (w[k] - SuiteOrigin[k]), 7)]

\* The head of the user stands at the origin of the suite.
camera == [position |-> SuiteOrigin]

\* The corners an event can name: the move handle, the scale handle and one
\* corner that is not interactive
Corners == {0, 3, 7}

Interactive(idx) == idx = 0 \/ idx = 7

\* Where the ray of a pointer meets the drag plane, in the coordinates of the
\* parent: two points, or nowhere
HitPoints == {Vector3(0, 0, 0), Vector3(400, 0, 0)}
Hits == {Null} \cup {Val(hit) : hit \in HitPoints}

\* Where the ray of the event that starts a drag meets the drag plane
GrabHits == {Val(hit) : hit \in HitPoints}

\* Common start of a drag, by pointer-down or by select-start
Grab(v, idx, hit) ==
  LET held == [v EXCEPT !.hoveredCorner = Val(idx),
                        !.isDraggingCorner = TRUE,
                        !.activeCornerRef = Val(idx),
                        !.dragModeRef = Val(IF idx = 0 THEN "move" ELSE "scale"),
                        !.dragPlaneRef = Val("plane")]
  IN  IF hit = Null
        THEN [held EXCEPT !.dragOffsetLocalRef = Val(Vector3(0, 0, 0))]
        ELSE [held EXCEPT !.dragOffsetLocalRef = Val(V3Sub(hit.v, v.position)),
                          !.initialGroupPosRef = Val(v.position),
                          !.initialScaleRef = Val(v.scale)]

\* onCornerPointerDown(idx); setPointerCapture may throw
OnCornerPointerDown(idx, pointerId) ==
  /\ ViewerRendered
  /\ \E hasPrimary \in BOOLEAN, throws \in BOOLEAN, hit \in GrabHits :
       IF ~hasPrimary \/ ~Interactive(idx)
         THEN UNCHANGED viewer
         ELSE viewer' = Grab([viewer EXCEPT !.pointerIdRef = IF throws THEN @ ELSE Val(pointerId)],
                             idx, hit)
  /\ UNCHANGED <<appVars, state, uniforms, slider, draw, frag>>

RefOr(ref, default) == IF ref = Null THEN default ELSE ref.v

maxDist == 250

\* The move branch of onScenePointerMove: the position the group is given
MoveTo(v, hitLocal) ==
  LET offset == RefOr(v.dragOffsetLocalRef, Vector3(0, 0, 0))
      targetLocal == V3Sub(hitLocal, offset)
      camWorld == camera.position
      targetWorld == localToWorld(targetLocal)
      dist == V3Length(V3Sub(targetWorld, camWorld))
      toTarget == V3Sub(targetWorld, camWorld)
  IN  IF dist > maxDist
        THEN worldToLocal(V3Add(camWorld, [k \in 1..3 |-> RoundDiv(toTarget[k] * maxDist, dist)]))
        ELSE targetLocal

\* the factor k of a scale drag, in thousandths
ScaleFactor(v, hitLocal) ==
  LET startPos == RefOr(v.initialGroupPosRef, Vector3(0, 0, 0))
      offset == RefOr(v.dragOffsetLocalRef, Vector3(0, 0, 0))
      delta == V3Sub(hitLocal, V3Add(startPos, offset))
  IN  1000 + 8 * V3Length(delta) * (IF delta[1] + delta[2] + delta[3] >= 0 THEN 1 ELSE 0 - 1)

\* (mutation) a scale drag without the clamp
ScaleToUnclamped(v, hitLocal) ==
  LET initialScale == RefOr(v.initialScaleRef, Vector3(1000, 1000, 1000))
  IN  [c \in 1..3 |-> (initialScale[c] * ScaleFactor(v, hitLocal)) \div 1000]

\* The scale branch of onScenePointerMove: the scale the group is given
ScaleTo(v, hitLocal) ==
  LET initialScale == RefOr(v.initialScaleRef, Vector3(1000, 1000, 1000))
  IN  [c \in 1..3 |->
         Max(200, Min(3000, (initialScale[c] * ScaleFactor(v, hitLocal)) \div 1000))]

\* onScenePointerMove
OnScenePointerMove(pointerId) ==
  /\ ViewerRendered
  /\ \E hit \in Hits :
       IF \/ ~viewer.isDraggingCorner
          \/ viewer.pointerIdRef \notin {Null, Val(pointerId)}
          \/ viewer.dragPlaneRef = Null
          \/ hit = Null
         THEN UNCHANGED viewer
         ELSE IF viewer.dragModeRef = Val("move")
                THEN viewer' = [viewer EXCEPT !.position = MoveTo(viewer, hit.v)]
              ELSE IF viewer.dragModeRef = Val("scale")
                THEN viewer' = [viewer EXCEPT !.scale = ScaleTo(viewer, hit.v)]
              ELSE UNCHANGED viewer
  /\ UNCHANGED <<appVars, state, uniforms, slider, draw, frag>>

\* (mutation) a pointer-up that ends the drag during a select gesture too
PointerUpDuringSelect(v, throws) ==
  IF ~v.isDraggingCorner THEN v
  ELSE [v EXCEPT !.isDraggingCorner = FALSE,
                 !.hoveredCorner = Null,
                 !.activeCornerRef = Null,
                 !.dragModeRef = Null,
                 !.pointerIdRef = IF throws THEN @ ELSE Null]

\* The body of onCornerPointerUp; releasePointerCapture may throw
PointerUp(v, throws) ==
  IF ~v.isDraggingCorner \/ v.selectActiveRef THEN v
  ELSE [v EXCEPT !.isDraggingCorner = FALSE,
                 !.hoveredCorner = Null,
                 !.activeCornerRef = Null,
                 !.dragModeRef = Null,
                 !.pointerIdRef = IF throws THEN @ ELSE Null]

\* onCornerPointerUp, on a corner or on the group
OnCornerPointerUp ==
  /\ ViewerRendered
  /\ \E throws \in BOOLEAN : viewer' = PointerUp(viewer, throws)
  /\ UNCHANGED <<appVars, state, uniforms, slider, draw, frag>>

\* onCornerPointerCancel
OnCornerPointerCancel ==
  /\ ViewerRendered
  /\ \E throws \in BOOLEAN :
       IF viewer.selectActiveRef THEN UNCHANGED viewer ELSE viewer' = PointerUp(viewer, throws)
  /\ UNCHANGED <<appVars, state, uniforms, slider, draw, frag>>

\* onCornerSelectStart(idx): a pending grace timer is cleared
OnCornerSelectStart(idx) ==
  /\ ViewerRendered
  /\ \E hit \in GrabHits :
       IF ~Interactive(idx)
         THEN UNCHANGED viewer
         ELSE viewer' = Grab([viewer EXCEPT !.timer = IF viewer.selectEndTimeoutRef # Null
                                                        THEN Null ELSE @,
                                            !.selectEndTimeoutRef = Null,
                                            !.selectActiveRef = TRUE],
                             idx, hit)
  /\ UNCHANGED <<appVars, state, uniforms, slider, draw, frag>>

\* onCornerSelectEnd: the grace timer is started again, and its callback
\* keeps the isDraggingCorner of this render
OnCornerSelectEnd ==
  /\ ViewerRendered
  /\ viewer' = [viewer EXCEPT !.timer = [isDraggingCorner |-> viewer.isDraggingCorner],
                              !.selectEndTimeoutRef = Val("timeout")]
  /\ UNCHANGED <<appVars, state, uniforms, slider, draw, frag>>

\* The callback of the grace timer, 120 ms after the select-end
GraceTimerFires ==
  /\ ViewerRendered
  /\ viewer.timer # Null
  /\ viewer' = IF ~viewer.timer.isDraggingCorner
                 THEN [viewer EXCEPT !.selectActiveRef = FALSE, !.timer = Null]
                 ELSE [viewer EXCEPT !.selectActiveRef = FALSE,
                                     !.isDraggingCorner = FALSE,
                                     !.hoveredCorner = Null,
                                     !.activeCornerRef = Null,
                                     !.dragModeRef = Null,
                                     !.selectEndTimeoutRef = Null,
                                     !.timer = Null]
  /\ UNCHANGED <<appVars, state, uniforms, slider, draw, frag>>

NextCorner ==
  \/ \E idx \in Corners, pointerId \in PointerIds : OnCornerPointerDown(idx, pointerId)
  \/ \E pointerId \in PointerIds : OnScenePointerMove(pointerId)
  \/ OnCornerPointerUp
  \/ OnCornerPointerCancel
  \/ \E idx \in Corners : OnCornerSelectStart(idx)
  \/ OnCornerSelectEnd
  \/ GraceTimerFires

\* One session of the program from its start: the two scans are loaded, and
\* on the rendered suite a threshold is dragged, the clipping and the
\* modality are toggled, frames are drawn, corner 7 is dragged by one
\* pointer, and the XR button is pressed.
NextSession ==
  \/ Next
  \/ SliderChange("THRES MIN")
  \/ ToggleSlicing
  \/ ToggleModality
  \/ UseFrame
  \/ OnCornerPointerDown(7, 1)
  \/ OnScenePointerMove(1)
  \/ OnCornerPointerUp

(* ------------------------------ the inputs ----------------------------- *)

\* The two bytes of a 16-bit integer, most significant first
I16Sig(v) == LET u == IF v < 0 THEN v + 65536 ELSE v IN <<u \div 256, u % 256>>

\* binary32 bit patterns, most significant byte first
F32Zero == <<0, 0, 0, 0>>
F32Half == <<63, 0, 0, 0>>
F32One == <<63, 128, 0, 0>>
F32Two == <<64, 0, 0, 0>>
F32MinusHalf == <<191, 0, 0, 0>>
F32MinusOneAndHalf == <<191, 192, 0, 0>>
F32NaN == <<127, 192, 0, 0>>
F32Of348 == <<67, 174, 0, 0>>
F32Of349 == <<67, 174, 128, 0>>
F32Of350 == <<67, 175, 0, 0>>
F32Of352 == <<67, 176, 0, 0>>
F32Of352AndHalf == <<67, 176, 64, 0>>
F32Of1000 == <<68, 122, 0, 0>>

\* A scan file written in byte order le whose first four bytes are magic.
MkFile(le, magic, dims, dataType, pix, vox, slope, inter, tail) ==
  [empty |-> FALSE,
   magic |-> magic,
   dim |-> Stored(I16Sig(dims[1]), le) \o Stored(I16Sig(dims[2]), le)
             \o Stored(I16Sig(dims[3]), le),
   datatype |-> Stored(I16Sig(dataType), le),
   pixdim |-> Stored(pix[1], le) \o Stored(pix[2], le) \o Stored(pix[3], le),
   vox_offset |-> Stored(vox, le),
   scl_slope |-> Stored(slope, le),
   scl_inter |-> Stored(inter, le),
   tail |-> tail]

EmptyBody ==
  [empty |-> TRUE, magic |-> F32Zero, dim |-> <<0, 0, 0, 0, 0, 0>>, datatype |-> <<0, 0>>,
   pixdim |-> F32Zero \o F32Zero \o F32Zero, vox_offset |-> F32Zero,
   scl_slope |-> F32Zero, scl_inter |-> F32Zero, tail |-> <<>>]

\* sizeof_hdr = 348 as each byte order stores it
MagicOf(le) == Stored(<<0, 0, 1, 92>>, le)

\* Four bytes between the header and the voxels, then sixteen payload bytes:
\* as binary32 every aligned word is a whole number or NaN in both byte
\* orders, as 16-bit words most of them change value with the byte order.
MixedTail ==
  <<75, 0, 0, 75,
    75, 0, 1, 75,  75, 1, 0, 75,  75, 1, 1, 75,  127, 192, 192, 127>>

\* Length of the long scan: above twice the sample cap, so that the sample
\* is cut at the cap and taken with a stride of 2
LongScan == 20001

\* Four pad bytes, then n bytes in a fixed scrambled pattern
ScrambledTail(n) == [i \in 1..(n + 4) |-> IF i <= 4 THEN 0 ELSE ((i - 4) * 37) % 251]
\* Four pad bytes, then n bytes that rise by one every 1999 bytes
RampTail(n) == [i \in 1..(n + 4) |-> IF i <= 4 THEN 0 ELSE (i - 5) \div 1999]

UnitPix == <<F32One, F32One, F32One>>
ThinPix == <<F32One, F32Half, F32Two>>

ByteOrders == {TRUE, FALSE}

\* Files that vary the header reads, the datatype and the extent checks.
HeaderFiles ==
  { MkFile(le, IF marked \/ le THEN MagicOf(le) ELSE F32Zero, dims, dt, UnitPix, vox,
           F32One, F32Zero, tail) :
      le \in ByteOrders,
      marked \in BOOLEAN,
      dims \in {<<2, 1, 1>>, <<2, 2, 2>>, <<2, 2, 5>>, <<0, 3, 1>>, <<-1, 1, 1>>},
      dt \in {2, 4, 16, 512, 0, 8, -1},
      vox \in {F32Of352, F32Of348, F32Of349, F32Of350, F32Of352AndHalf,
               F32MinusHalf, F32MinusOneAndHalf, F32Of1000},
      tail \in {MixedTail} }

\* Little-endian files without the size mark, which are read as big-endian;
\* their float fields hold a pattern that is a whole number in both orders.
F32Both == <<75, 0, 0, 75>>

MisreadFiles ==
  { MkFile(TRUE, F32Zero, dims, dt, <<F32Both, F32Both, F32Both>>, F32Both,
           F32Zero, F32Zero, MixedTail) :
      dims \in {<<2, 1, 1>>, <<257, 1, 1>>}, dt \in {2, 4, 512} }

\* A NaN offset makes the typed array start at byte 0 of the buffer.
NaNOffsetFiles ==
  { MkFile(le, MagicOf(le), <<2, 1, 1>>, dt, UnitPix, F32NaN, F32One, F32Zero, MixedTail) :
      le \in ByteOrders, dt \in {2, 4, 512, 8} }

\* Files that vary the scale, the intercept and the spacing.
ScalingFiles ==
  { MkFile(le, MagicOf(le), dims, dt, pix, F32Of352, slope, inter, MixedTail) :
      le \in ByteOrders,
      dims \in {<<3, 1, 1>>, <<2, 2, 1>>},
      dt \in {2, 4, 16, 512},
      pix \in {ThinPix},
      slope \in {F32Zero, F32One, F32Two, F32Half, F32NaN},
      inter \in {F32Zero, F32One, F32MinusHalf, F32NaN} }

\* Long 8-bit scans: percentile indices inside the sample, the sample cap
\* and a stride above 1.
LongFiles ==
  { MkFile(TRUE, MagicOf(TRUE), <<n, 1, 1>>, 2, UnitPix, F32Of352, F32One, F32Zero,
           ScrambledTail(n)) : n \in {200, 201} }
  \cup { MkFile(TRUE, MagicOf(TRUE), <<n, 1, 1>>, 2, UnitPix, F32Of352, F32One, F32Zero,
                RampTail(n)) : n \in {LongScan} }
  \cup { MkFile(TRUE, MagicOf(TRUE), <<40, 1, 1>>, 2, UnitPix, F32Of352, F32One, F32Zero,
                [i \in 1..44 |-> 9]) }

\* Short scans of every datatype, with and without NaN voxels
WindowFiles ==
  { MkFile(le, MagicOf(le), dims, dt, UnitPix, F32Of352, F32One, F32Zero, MixedTail) :
      le \in ByteOrders,
      dims \in {<<1, 1, 1>>, <<3, 1, 1>>, <<2, 2, 1>>, <<0, 3, 1>>},
      dt \in {2, 4, 16, 512} }

\* A scan whose voxels all have the same value
UniformFile ==
  MkFile(TRUE, MagicOf(TRUE), <<3, 1, 1>>, 2, UnitPix, F32Of352, F32Two, F32One,
         <<0, 0, 0, 0, 9, 9, 9>>)

F32MinusOne == <<191, 128, 0, 0>>

\* 8-bit scans long enough to have voxels below the 5th and above the 99.5th
\* percentile, with a positive and a negative scale
SpreadFiles ==
  { MkFile(TRUE, MagicOf(TRUE), <<n, 1, 1>>, 2, UnitPix, F32Of352, slope, F32One, tail) :
      n \in {201},
      slope \in {F32One, F32Half, F32MinusOne},
      tail \in {ScrambledTail(201), [i \in 1..205 |-> IF i <= 4 THEN 0 ELSE i]} }

DecodeFiles ==
  HeaderFiles \cup MisreadFiles \cup NaNOffsetFiles \cup ScalingFiles
    \cup SpreadFiles \cup {EmptyBody, UniformFile}

GoodFile == MkFile(TRUE, MagicOf(TRUE), <<2, 2, 1>>, 2, UnitPix, F32Of352, F32One, F32Zero, MixedTail)

\* The files of the two-scan runs: two that decode, three that do not.
AppFiles ==
  { GoodFile,
    MkFile(FALSE, MagicOf(FALSE), <<2, 1, 1>>, 4, UnitPix, F32Of352, F32Two, F32Zero, MixedTail),
    MkFile(TRUE, MagicOf(TRUE), <<2, 2, 1>>, 8, UnitPix, F32Of352, F32One, F32Zero, MixedTail),
    MkFile(TRUE, MagicOf(TRUE), <<2, 2, 5>>, 2, UnitPix, F32Of352, F32One, F32Zero, MixedTail),
    EmptyBody }

Requests == {"ok", "http_error", "network_error"}

InitRest ==
  /\ platformLE \in ByteOrders
  /\ pc = [c \in Chan |-> "fetch"]
  /\ promise = [c \in Chan |-> Pending]
  /\ loadPc = "await"
  /\ t1Data = Null
  /\ t2Data = Null
  /\ loading = TRUE
  /\ error = Null
  /\ xrSession = FALSE

\* App mounts and loadData starts both fetchNifti calls.
Init ==
  /\ file \in [Chan -> AppFiles]
  /\ net \in [Chan -> Requests]
  /\ InitRest
  /\ InitUI
  /\ draw = NoDraw /\ frag = NoFragment

Spec == Init /\ [][Next]_vars

\* The same program with one scan drawn from the decoder's input files.
InitDecode ==
  /\ \E f \in DecodeFiles : file = [t1 |-> f, t2 |-> GoodFile]
  /\ net = [c \in Chan |-> "ok"]
  /\ InitRest
  /\ InitUI
  /\ draw = NoDraw /\ frag = NoFragment

SpecDecode == InitDecode /\ [][Next]_vars

\* The same program with one scan drawn from the long scans and from a few
\* short ones.
InitWindow ==
  /\ \E f \in LongFiles \cup WindowFiles : file = [t1 |-> f, t2 |-> GoodFile]
  /\ net = [c \in Chan |-> "ok"]
  /\ InitRest
  /\ InitUI
  /\ draw = NoDraw /\ frag = NoFragment

SpecWindow == InitWindow /\ [][Next]_vars

(* --------------------------- frames and rays --------------------------- *)

\* An 8-bit scan of 1 x 1 x n voxels
RayFile(bytes) ==
  MkFile(TRUE, MagicOf(TRUE), <<1, 1, Len(bytes)>>, 2, UnitPix, F32Of352, F32One, F32Zero,
         <<0, 0, 0, 0>> \o bytes)

\* quantized to <<0>>, <<0, 255>> and <<0, 204, 255>>
RayFiles == {RayFile(<<9>>), RayFile(<<10, 20>>), RayFile(<<0, 200, 250>>)}

\* the Data3DTexture made of a dataset
TextureOf(dataset) == [dims |-> dataset.dims, data |-> dataset.data]

Vec(x, y, z) == <<x, y, z>>
Q(n) == Rat(n, 4)

\* vOrigin (in quarters) and vDirection of the fragments: rays through the
\* centre of the box, from inside it, past it, away from it and along x.
Rays ==
  { [o |-> Vec(Q(0), Q(0), Q(8)), v |-> Vec(0, 0, 0 - 1)],
    [o |-> Vec(Q(0), Q(0), Q(8)), v |-> Vec(0, 0, 1)],
    [o |-> Vec(Q(0), Q(0), Q(0)), v |-> Vec(0, 0, 0 - 1)],
    [o |-> Vec(Q(8), Q(8), Q(8)), v |-> Vec(0 - 2, 0 - 2, 0 - 1)],
    [o |-> Vec(Q(8), Q(8), Q(4)), v |-> Vec(0 - 2, 0 - 2, 0 - 1)],
    [o |-> Vec(Q(0 - 8), Q(0), Q(1)), v |-> Vec(1, 0, 0)],
    [o |-> Vec(Q(8), Q(1), Q(0 - 1)), v |-> Vec(0 - 1, 0, 0)],
    [o |-> Vec(Q(0), Q(0), Q(0 - 8)), v |-> Vec(0, 0, 2)] }

\* The uniforms of the defaults of the shader with the widest band the
\* dashboard gives
BaseUniforms ==
  [u_thresholdMin |-> Dec(1, 100), u_thresholdMax |-> One,
   u_opacity |-> 15 * One, u_brightness |-> 12 * One,
   u_clipping |-> FALSE, u_clipX |-> RInt(1), u_clipY |-> RInt(1), u_clipZ |-> RInt(1),
   u_colorMap |-> 0, u_useColorMap |-> TRUE,
   u_density |-> One, u_mixT1T2 |-> One]

\* the values the dashboard sliders and buttons reach, one control at a time
SingleUniforms ==
  {BaseUniforms}
  \cup {[BaseUniforms EXCEPT !.u_opacity = x] : x \in {Dec(1, 2), 12 * One}}
  \cup {[BaseUniforms EXCEPT !.u_brightness = x] : x \in {0, One, 60 * One}}
  \cup {[BaseUniforms EXCEPT !.u_thresholdMin = b[1], !.u_thresholdMax = b[2]] :
          b \in {<<Dec(8, 100), Dec(35, 100)>>, <<Dec(1, 2), Dec(505, 1000)>>,
                 <<Dec(99, 100), One>>, <<Dec(1, 100), Dec(15, 1000)>>}}
  \cup {[BaseUniforms EXCEPT !.u_colorMap = m] : m \in {1, 2, 3}}
  \cup {[BaseUniforms EXCEPT !.u_useColorMap = FALSE]}
  \cup {[BaseUniforms EXCEPT !.u_clipping = e, !.u_clipX = c[1], !.u_clipY = c[2],
                             !.u_clipZ = c[3]] :
          e \in BOOLEAN,
          c \in {<<Rat(1, 2), RInt(1), RInt(1)>>, <<RInt(1), Rat(1, 2), Rat(1, 4)>>,
                 <<RInt(0), RInt(0), RInt(0)>>}}

FusionUniforms ==
  {[BaseUniforms EXCEPT !.u_mixT1T2 = m] : m \in {0 - Dec(1, 2), 0, Dec(1, 2), One, 2 * One}}
  \cup {[BaseUniforms EXCEPT !.u_density = x] : x \in {0, 2 * One}}
  \cup {[BaseUniforms EXCEPT !.u_brightness = x] : x \in {0, 60 * One}}

\* App after loadData has finished with the scans f1 and f2
Loaded(f1, f2) ==
  /\ platformLE = TRUE
  /\ file = [t1 |-> f1, t2 |-> f2]
  /\ net = [c \in Chan |-> "ok"]
  /\ pc = [c \in Chan |-> "resolved"]
  /\ promise = [c \in Chan |-> DecodeNifti(file[c], TRUE)]
  /\ loadPc = "done"
  /\ t1Data = promise["t1"].value
  /\ t2Data = promise["t2"].value
  /\ loading = FALSE
  /\ error = Null
  /\ xrSession = FALSE

\* the rays the uniforms are varied on: through the centre along z, along x
MarchRays ==
  { [o |-> Vec(Q(0), Q(0), Q(8)), v |-> Vec(0, 0, 0 - 1)],
    [o |-> Vec(Q(0 - 8), Q(0), Q(1)), v |-> Vec(1, 0, 0)] }

\* Scan, ray, shader and uniforms of the fragments: every ray on every scan
\* with the base uniforms, and every setting of the uniforms on two rays
\* through the scans that are not uniform.
Frames ==
  { [f |-> f, r |-> r, s |-> "single", u |-> BaseUniforms] : f \in RayFiles, r \in Rays }
  \cup { [f |-> f, r |-> r, s |-> "single", u |-> u] :
            f \in RayFiles \ {RayFile(<<9>>)}, r \in MarchRays, u \in SingleUniforms }
  \cup { [f |-> f, r |-> r, s |-> "fusion", u |-> u] :
            f \in RayFiles \ {RayFile(<<9>>)}, r \in MarchRays, u \in FusionUniforms }

\* One fragment of one draw call of the rendered viewer: the textures of the
\* two datasets, a ray and the uniforms of one of the two shaders.
DrawOf(x) ==
  /\ Loaded(x.f, GoodFile)
  /\ draw = [shader |-> x.s, vOrigin |-> x.r.o, vDirection |-> x.r.v,
             u_data |-> TextureOf(t1Data), u_data2 |-> TextureOf(t2Data)] @@ x.u
  /\ frag = [pc |-> "main"]
  /\ MountedUI

InitRay == \E x \in Frames : DrawOf(x)

SpecRay == InitRay /\ [][NextRay]_vars

(* ------------------------- the rendered viewer ------------------------- *)

\* Both scans are loaded and InteractiveSuite has just been rendered.
InitMounted ==
  /\ Loaded(GoodFile, GoodFile)
  /\ MountedUI
  /\ draw = NoDraw /\ frag = NoFragment

\* The Dashboard under clicks and slider changes, and the frames
SpecDashboard == InitMounted /\ [][NextDashboard]_vars

\* The two threshold sliders under two pointers, and the frames
SpecSlider == InitMounted /\ [][NextSlider]_vars

\* The corners of the volume under pointer and select events of two
\* pointers, and the grace timer
SpecCorner == InitMounted /\ [][NextCorner]_vars

\* The whole program with the narrow inputs of one session
SpecSession == Init /\ [][NextSession]_vars

TypeOK ==
  /\ loading \in BOOLEAN
  /\ loadPc \in {"await", "setT2Data", "setLoading", "done"}
  /\ \A c \in Chan : pc[c] \in {"fetch", "body", "resolved", "rejected"}

(* ------------------------------- properties ---------------------------- *)

Settled(c) == pc[c] \in {"resolved", "rejected"}
\* the call of c got as far as decoding the header
HeaderDecoded(c) == Settled(c) /\ "h" \in DOMAIN promise[c].locals
Local(c) == promise[c].locals

\* the datatype code the header of the file of c declares
DeclaredType(c) == DataType(file[c], IsLittleEndian(file[c]))

\* C1: a scan whose header declares a datatype code other than 2, 4, 16 and
\* 512 never yields a dataset: its fetchNifti call does not fulfil, and once
\* it has run it is rejected without a value.
C1_UnsupportedTypeFails ==
  \A c \in Chan :
    (HeaderReadable(file[c]) /\ DeclaredType(c) \notin {2, 4, 16, 512})
      => /\ pc[c] # "resolved"
         /\ "value" \notin DOMAIN promise[c]
         /\ (pc[c] = "rejected" => promise[c].outcome = "rejected")

\* the final else of the datatype chain has thrown
C1_Witness ==
  \E c \in Chan :
    /\ pc[c] = "rejected"
    /\ promise[c].stage = "datatype"
    /\ DeclaredType(c) \notin {2, 4, 16, 512}

\* bytes per element of the four supported datatype codes
DeclaredWidth(c) ==
  CASE DeclaredType(c) = 2 -> 1
    [] DeclaredType(c) = 4 -> 2
    [] DeclaredType(c) = 16 -> 4
    [] DeclaredType(c) = 512 -> 2

\* the declared payload of the file of c ends past the end of the buffer
PayloadTooLong(c) ==
  /\ HeaderReadable(file[c])
  /\ DeclaredType(c) \in {2, 4, 16, 512}
  /\ LET le == IsLittleEndian(file[c])
         off == VoxOffset(file[c], le)
         dims == Dims(file[c], le)
     IN  /\ ~off.nan
         /\ WholeOf(off) + (dims[1] * dims[2] * dims[3]) * DeclaredWidth(c)
              > ByteLength(file[c])

\* C2: with a supported datatype, a scan whose voxel offset plus voxel count
\* times element width exceeds the buffer length never yields a dataset.
C2_ShortBufferFails ==
  \A c \in Chan :
    PayloadTooLong(c)
      => /\ pc[c] # "resolved"
         /\ "value" \notin DOMAIN promise[c]
         /\ (pc[c] = "rejected" => promise[c].outcome = "rejected")

\* the typed-array constructor has thrown on a payload that is too long
\* although the offset itself is inside the buffer and aligned
C2_Witness ==
  \E c \in Chan :
    /\ PayloadTooLong(c)
    /\ pc[c] = "rejected"
    /\ promise[c].stage = "typedarray"
    /\ Local(c).h.numVoxels > 0
    /\ ToIndex(Local(c).h.voxOffset) \in HeaderSize..ByteLength(file[c])
    /\ ToIndex(Local(c).h.voxOffset) % 4 = 0

\* a dataset with one quantized voxel per declared voxel
Complete(d) == d # Null /\ Len(d.data) = d.dims[1] * d.dims[2] * d.dims[3]

\* C3: whenever the volume viewer is rendered, t1Data and t2Data are the
\* completely decoded datasets of the two fulfilled fetchNifti calls; while a
\* call has failed the viewer is not rendered; and each of t1Data and t2Data
\* is at every moment null or the whole dataset of its call.
C3_ViewerHasBothDatasets ==
  /\ ViewerRendered =>
       /\ \A c \in Chan : pc[c] = "resolved"
       /\ t1Data = promise["t1"].value /\ Complete(t1Data)
       /\ t2Data = promise["t2"].value /\ Complete(t2Data)
  /\ (\E c \in Chan : pc[c] = "rejected") => ~ViewerRendered
  /\ t1Data # Null => (pc["t1"] = "resolved" /\ t1Data = promise["t1"].value)
  /\ t2Data # Null => (pc["t2"] = "resolved" /\ t2Data = promise["t2"].value)

C3_Witness == ViewerRendered /\ loadPc = "done" /\ Complete(t1Data) /\ Complete(t2Data)

DataOf(c) == IF c = "t1" THEN t1Data ELSE t2Data

\* C4: when loadData has finished and one scan has failed while the other
\* one was decoded, the decoded dataset of the other one is in the state the
\* viewer is rendered from.
C4_FailureStaysLocal ==
  \A c, d \in Chan :
    (loadPc = "done" /\ pc[c] = "rejected" /\ pc[d] = "resolved")
      => DataOf(d) = promise[d].value

\* C5: every multi-byte read of a decoded scan uses the byte order chosen by
\* the magic check: the header fields and the payload elements.
C5_OneByteOrder ==
  \A c \in Chan :
    pc[c] = "resolved" =>
      LET h == Local(c).h
          le == (GetInt32(file[c], 0, TRUE) = 348)
      IN  /\ h.isLittleEndian = le
          /\ h.dims = Dims(file[c], le)
          /\ h.pixDims = PixDims(file[c], le)
          /\ h.dataType = DataType(file[c], le)
          /\ \A i \in 1..h.numVoxels :
               Local(c).rawValues[i] =
                 Fround(FAdd(FMul(ElementAt(file[c], ArrayFor(h.dataType), h.voxOffset,
                                            i - 1, le), h.sclSlope), h.sclInter))

IsZero(x) == ~x.nan /\ x.v = 0

\* C6 as stated: the scale is 1.0 when the stored scale is zero and the
\* stored value otherwise, the intercept is 0.0 when the stored intercept is
\* zero and the stored value otherwise.
C6_DefaultOnZeroOnly ==
  \A c \in Chan :
    HeaderDecoded(c) =>
      LET le == Local(c).h.isLittleEndian
          slope == GetFloat32(file[c], 112, le)
          inter == GetFloat32(file[c], 116, le)
      IN  /\ Local(c).h.sclSlope = IF IsZero(slope) THEN Whole(1) ELSE slope
          /\ Local(c).h.sclInter = IF IsZero(inter) THEN Whole(0) ELSE inter

\* C6 amended: the scale is 1.0 when the stored scale is zero or NaN and the
\* stored value otherwise; the intercept is 0.0 when the stored intercept is
\* zero or NaN and the stored value otherwise; each default is applied
\* whatever the other field holds.
C6_DefaultOnZeroOrNaN ==
  \A c \in Chan :
    HeaderDecoded(c) =>
      LET le == Local(c).h.isLittleEndian
          slope == GetFloat32(file[c], 112, le)
          inter == GetFloat32(file[c], 116, le)
      IN  /\ Local(c).h.sclSlope = IF IsZero(slope) \/ slope.nan THEN Whole(1) ELSE slope
          /\ Local(c).h.sclInter = IF IsZero(inter) \/ inter.nan THEN Whole(0) ELSE inter

\* a NaN scale is replaced while the intercept next to it is kept
C6_Witness ==
  \E c \in Chan :
    /\ HeaderDecoded(c)
    /\ GetFloat32(file[c], 112, Local(c).h.isLittleEndian).nan
    /\ Local(c).h.sclSlope = Whole(1)
    /\ Local(c).h.sclInter = Num(-1)

\* C7 as stated: the voxel offset is the stored float rounded toward zero.
C7_OffsetTruncated ==
  \A c \in Chan :
    HeaderDecoded(c) =>
      Local(c).h.voxOffset = MathTrunc(GetFloat32(file[c], 108, Local(c).h.isLittleEndian))

\* C7 amended: the voxel offset is the stored float rounded down, the
\* largest integer that is not above it (NaN for NaN); for a stored value
\* that is not negative this is the value rounded toward zero.
C7_OffsetFloored ==
  \A c \in Chan :
    HeaderDecoded(c) =>
      LET stored == GetFloat32(file[c], 108, Local(c).h.isLittleEndian)
          off == Local(c).h.voxOffset
      IN  IF stored.nan THEN off.nan
          ELSE /\ IsWhole(off)
               /\ off.v <= stored.v /\ stored.v < off.v + 2
               /\ (stored.v >= 0 => off = MathTrunc(stored))

\* a negative fractional offset has been rounded away from zero
C7_Witness ==
  \E c \in Chan :
    /\ HeaderDecoded(c)
    /\ GetFloat32(file[c], 108, Local(c).h.isLittleEndian) = Num(-3)
    /\ Local(c).h.voxOffset = Whole(-2)

\* C8: the raw volume of a decoded scan has one element per declared voxel
\* and element i is the i-th payload element of the file, in the byte order
\* of the file, times the scale plus the intercept.
C8_RawVolume ==
  \A c \in Chan :
    pc[c] = "resolved" =>
      LET h == Local(c).h
          raw == Local(c).rawValues
      IN  /\ Len(raw) = h.dims[1] * h.dims[2] * h.dims[3]
          /\ \A i \in 1..Len(raw) :
               LET e == ElementAt(file[c], ArrayFor(h.dataType), h.voxOffset, i - 1,
                                  h.isLittleEndian)
               IN  raw[i] = Fround(FAdd(FMul(e, h.sclSlope), h.sclInter))

\* C9 as stated: the width is never zero; it is max - min when that
\* difference is not zero, and 1.0 when max equals min.
C9_WidthIsDifferenceOrOne ==
  \A c \in Chan :
    pc[c] = "resolved" =>
      LET w == Local(c).w
          d == FSub(w.maxVal, w.minVal)
      IN  /\ ~IsZero(w.range)
          /\ w.range = IF IsZero(d) THEN Whole(1) ELSE d

\* C9 amended: the width is never zero and never NaN; it is max - min when
\* that difference is a number other than zero, and 1.0 when max equals min
\* or when the difference is NaN (a window bound that is NaN).
C9_WidthNeverZeroNorNaN ==
  \A c \in Chan :
    pc[c] = "resolved" =>
      LET w == Local(c).w
          d == FSub(w.maxVal, w.minVal)
      IN  /\ ~IsZero(w.range) /\ ~w.range.nan
          /\ w.range = IF IsZero(d) \/ d.nan THEN Whole(1) ELSE d

\* a window whose max equals its min got the width 1.0
C9_Witness ==
  \E c \in Chan :
    /\ pc[c] = "resolved"
    /\ ~Local(c).w.minVal.nan
    /\ Local(c).w.maxVal = Local(c).w.minVal
    /\ Local(c).w.range = Whole(1)

\* a <= b as JavaScript compares numbers: false when one of them is NaN
LeqJS(a, b) == ~a.nan /\ ~b.nan /\ a.v <= b.v

CountOf(s, x) == Cardinality({i \in DOMAIN s : s[i] = x})

\* the window of a decoded scan is built as C10 says, apart from the order
\* of its two bounds
WindowBuilt(c) ==
  LET raw == Local(c).rawValues
      w == Local(c).w
      len == Len(raw)
      n == Len(w.sorted)
      step == len \div n
      taken == [i \in 1..n |-> raw[(i - 1) * step + 1]]
  IN  /\ len > 0
      /\ n = (IF len < 10000 THEN len ELSE 10000)
      /\ \A i \in 0..(n - 1) : i * step < len
      /\ \A i \in 1..(n - 1) : ~Before(w.sorted[i + 1], w.sorted[i])
      /\ \A x \in {taken[i] : i \in 1..n} \cup {w.sorted[i] : i \in 1..n} :
           CountOf(taken, x) = CountOf(w.sorted, x)
      /\ (n * 5) \div 100 < n
      /\ (n * 995) \div 1000 < n
      /\ w.minVal = w.sorted[(n * 5) \div 100 + 1]
      /\ w.maxVal = w.sorted[(n * 995) \div 1000 + 1]

\* C10 as stated: the sample has min(L, 10000) elements taken at the indices
\* i * floor(L / n), all inside the volume; the window bounds are the sorted
\* sample's elements at floor(0.05 n) and floor(0.995 n), both inside the
\* sample; and min <= max.
C10_PercentileWindow ==
  \A c \in Chan :
    pc[c] = "resolved" =>
      WindowBuilt(c) /\ LeqJS(Local(c).w.minVal, Local(c).w.maxVal)

\* C10 amended: the same, with min <= max whenever the maximum is a number;
\* NaN voxels sort last, so the maximum of a sample that holds one in its
\* top 0.5 percent is NaN.
C10_PercentileWindowOfNumbers ==
  \A c \in Chan :
    pc[c] = "resolved" =>
      /\ WindowBuilt(c)
      /\ Local(c).w.maxVal.nan \/ LeqJS(Local(c).w.minVal, Local(c).w.maxVal)

\* a volume above twice the sample cap: 10000 samples at a stride of 2, the
\* two bounds strictly inside the sample and different
C10_Witness ==
  \E c \in Chan :
    /\ pc[c] = "resolved"
    /\ Len(Local(c).rawValues) > 2 * SampleCap
    /\ Len(Local(c).w.sorted) = SampleCap
    /\ LeqJS(Local(c).w.minVal, Local(c).w.maxVal)
    /\ Local(c).w.minVal # Local(c).w.maxVal
    /\ Local(c).w.maxVal # Local(c).w.sorted[SampleCap]

\* the quantized volume of a decoded scan
Data(c) == promise[c].value.data

\* C11: every element of the quantized volume of a decoded scan is an
\* integer from 0 to 255 for every finite raw value, and the two ends are
\* reached by saturation: a raw value at or below the window minimum gives 0
\* and one at or above minimum + width gives 255, however far outside it is.
C11_QuantizedInRange ==
  \A c \in Chan :
    pc[c] = "resolved" =>
      LET raw == Local(c).rawValues
          w == Local(c).w
      IN  \A i \in DOMAIN raw :
            ~raw[i].nan =>
              /\ Data(c)[i] \in 0..255
              /\ (~w.minVal.nan /\ raw[i].v <= w.minVal.v) => Data(c)[i] = 0
              /\ (~w.minVal.nan /\ raw[i].v >= w.minVal.v + w.range.v) => Data(c)[i] = 255

\* a voxel below the window became 0 and one whose scaled value is 256 or
\* more became 255
C11_Witness ==
  \E c \in Chan :
    /\ pc[c] = "resolved"
    /\ ~Local(c).w.minVal.nan
    /\ \E i, j \in DOMAIN Local(c).rawValues :
         LET a == Local(c).rawValues[i]
             b == Local(c).rawValues[j]
             w == Local(c).w
         IN  /\ ~a.nan /\ a.v < w.minVal.v /\ Data(c)[i] = 0
             /\ ~b.nan /\ 255 * (b.v - w.minVal.v) >= 256 * w.range.v /\ Data(c)[j] = 255

\* raw values a <= b of one scan have quantized values q(a) <= q(b)
MonotoneInRaw(c) ==
  \A i, j \in DOMAIN Local(c).rawValues :
    LeqJS(Local(c).rawValues[i], Local(c).rawValues[j]) => Data(c)[i] <= Data(c)[j]

\* s is non-decreasing in input order
NonDecreasing(s) == \A i \in 1..(Len(s) - 1) : s[i] <= s[i + 1]

\* the payload elements of the scan of c as the typed array delivers them
Payload(c) ==
  LET h == Local(c).h
  IN  [i \in 1..h.numVoxels |->
         ElementAt(file[c], ArrayFor(h.dataType), h.voxOffset, i - 1, platformLE)]

\* C12 as stated: quantization is monotone in the raw value, and a payload
\* that is non-decreasing in input order gives a quantized volume that is
\* non-decreasing in input order.
C12_MonotoneInPayload ==
  \A c \in Chan :
    pc[c] = "resolved" =>
      /\ MonotoneInRaw(c)
      /\ (\A i \in 1..(Len(Payload(c)) - 1) : LeqJS(Payload(c)[i], Payload(c)[i + 1]))
           => NonDecreasing(Data(c))

\* C12 amended: quantization is monotone in the raw value (the payload
\* element times the scale plus the intercept), and a raw volume that is
\* non-decreasing in input order gives a quantized volume that is
\* non-decreasing in input order.
C12_MonotoneInRawValue ==
  \A c \in Chan :
    pc[c] = "resolved" =>
      /\ MonotoneInRaw(c)
      /\ (\A i \in 1..(Len(Local(c).rawValues) - 1) :
            LeqJS(Local(c).rawValues[i], Local(c).rawValues[i + 1]))
           => NonDecreasing(Data(c))

\* a rising raw volume was quantized to a rising volume that is not constant
C12_Witness ==
  \E c \in Chan :
    /\ pc[c] = "resolved"
    /\ Len(Data(c)) > 200
    /\ \A i \in 1..(Len(Local(c).rawValues) - 1) :
         LeqJS(Local(c).rawValues[i], Local(c).rawValues[i + 1])
    /\ NonDecreasing(Data(c))
    /\ \E i \in DOMAIN Data(c) : Data(c)[i] \notin {0, 255}

\* the aspect ratio of a decoded scan whose dimensions and spacings are
\* positive
PositiveGrid(c) ==
  /\ pc[c] = "resolved"
  /\ \A i \in 1..3 : Local(c).h.dims[i] > 0
  /\ \A i \in 1..3 : ~Local(c).h.pixDims[i].nan /\ Local(c).h.pixDims[i].v > 0

Aspect(c) == promise[c].value.aspectRatio
IsOne(q) == ~q.num.nan /\ ~q.den.nan /\ q.den.v > 0 /\ q.num.v = q.den.v
InUnitInterval(q) == ~q.num.nan /\ ~q.den.nan /\ q.den.v > 0 /\ 0 < q.num.v /\ q.num.v <= q.den.v

\* C13 as stated: exactly one component of the aspect ratio is 1.0 and the
\* others are in (0, 1].
C13_ExactlyOneUnitAxis ==
  \A c \in Chan :
    PositiveGrid(c) =>
      /\ Cardinality({i \in 1..3 : IsOne(Aspect(c)[i])}) = 1
      /\ \A i \in 1..3 : InUnitInterval(Aspect(c)[i])

\* C13 amended: at least one component of the aspect ratio is 1.0 (every
\* axis of largest extent) and every component is in (0, 1].
C13_SomeUnitAxis ==
  \A c \in Chan :
    PositiveGrid(c) =>
      /\ \E i \in 1..3 : IsOne(Aspect(c)[i])
      /\ \A i \in 1..3 : InUnitInterval(Aspect(c)[i])

\* a scan with three different extents: one axis at 1.0, two below
C13_Witness ==
  \E c \in Chan :
    /\ PositiveGrid(c)
    /\ Cardinality({i \in 1..3 : IsOne(Aspect(c)[i])}) = 1
    /\ \E i, j \in 1..3 :
         /\ Aspect(c)[i].num.v < Aspect(c)[j].num.v
         /\ Aspect(c)[j].num.v < Aspect(c)[j].den.v

(* ----------------------- properties of the shader ---------------------- *)

HitTested == frag.pc \notin {"none", "main"}
Finished == frag.pc \in {"discarded", "written"}
Marched == "steps" \in DOMAIN frag

\* the origin is outside the slab of some axis and the direction does not
\* lead towards that slab
AimedAway(d) ==
  \E k \in 1..3 :
    \/ RLt(box_max, d.vOrigin[k]) /\ d.vDirection[k] >= 0
    \/ RLt(d.vOrigin[k], box_min) /\ d.vDirection[k] <= 0

Cross(o, v) ==
  <<RSub(RMul(o[2], RInt(v[3])), RMul(o[3], RInt(v[2]))),
    RSub(RMul(o[3], RInt(v[1])), RMul(o[1], RInt(v[3]))),
    RSub(RMul(o[1], RInt(v[2])), RMul(o[2], RInt(v[1])))>>
Dot(o, v) ==
  RAdd(RAdd(RMul(o[1], RInt(v[1])), RMul(o[2], RInt(v[2]))), RMul(o[3], RInt(v[3])))

\* the centre of the box lies on the ray, ahead of the origin or at it
ThroughCentre(d) ==
  /\ \A k \in 1..3 : Cross(d.vOrigin, d.vDirection)[k].n = 0
  /\ Dot(d.vOrigin, d.vDirection).n <= 0

\* C14: a ray whose entry distance is above its exit distance, or whose
\* exit distance is negative, is discarded before any sample is taken, with
\* no colour and no alpha; a ray from outside the box aimed away from it is
\* discarded, and a ray through the centre of the box has its entry distance
\* below its exit distance.
C14_MissIsDiscarded ==
  HitTested =>
    /\ (XLt(frag.t_hit[2], frag.t_hit[1]) \/ XLt(frag.t_hit[2], Fin(RInt(0))))
         => /\ frag.pc = "discarded"
            /\ ~Marched
            /\ "accum" \notin DOMAIN frag
            /\ "gl_FragColor" \notin DOMAIN frag
    /\ AimedAway(draw) => frag.pc = "discarded" /\ ~Marched
    /\ ThroughCentre(draw) => XLt(frag.t_hit[1], frag.t_hit[2])

\* a ray from outside the box aimed away from it, entry below exit and both
\* behind the origin, has been discarded
C14_Witness ==
  /\ frag.pc = "discarded"
  /\ AimedAway(draw)
  /\ XLt(frag.t_hit[1], frag.t_hit[2])
  /\ XLt(frag.t_hit[2], Fin(RInt(0)))

\* the value the loop samples at the distance frag.t
SampledVal == ValAt(draw, UvwAt(draw, frag.t))

\* a pass through the loop body is taken
PassTaken == frag.pc = "loop" /\ frag.i < MAX_STEPS /\ frag'.steps = frag.steps + 1

\* every voxel of the texture of the single shader has the same value, and
\* that value is outside the band
UniformOutside(d) ==
  /\ d.shader = "single"
  /\ \A j \in 1..Len(d.u_data.data) : d.u_data.data[j] = d.u_data.data[1]
  /\ LET val == Fix(Rat(d.u_data.data[1], 255))
     IN  val < d.u_thresholdMin \/ val > d.u_thresholdMax

\* C15: a step whose sampled value is strictly below u_thresholdMin or
\* strictly above u_thresholdMax leaves accum (colour and alpha) exactly as
\* it was; a ray through a uniform volume whose value is outside the band
\* ends with an alpha below 0.01 and is discarded.
C15_OutOfBandAddsNothing ==
  [][ /\ (PassTaken /\ (SampledVal < draw.u_thresholdMin \/ SampledVal > draw.u_thresholdMax))
         => frag'.accum = frag.accum
      /\ (UniformOutside(draw) /\ frag'.pc \in {"discarded", "written"})
         => /\ frag'.pc = "discarded"
            /\ "accum" \in DOMAIN frag' => frag'.accum.a < Visible ]_vars

\* a ray has marched its 160 steps through a uniform volume below the band
\* and has been discarded
C15_Witness ==
  /\ UniformOutside(draw)
  /\ frag.pc = "discarded"
  /\ Marched /\ frag.steps = MAX_STEPS
  /\ frag.accum = ZeroAccum

\* the gain the colour of a sample is multiplied by: u_brightness, or
\* min(max(0.0, u_brightness), 4.0) in the shader of the two textures
GainOf(d) ==
  IF d.shader = "single" THEN d.u_brightness
  ELSE LET gain == IF d.u_brightness < 0 THEN 0 ELSE d.u_brightness
       IN  IF gain < 4 * One THEN gain ELSE 4 * One

\* C16 as stated: the accumulated alpha and each accumulated RGB component
\* stay within [0, 1] at every step of every ray.
C16_AccumInUnitRange ==
  "accum" \in DOMAIN frag =>
    /\ 0 <= frag.accum.a /\ frag.accum.a <= One
    /\ \A k \in 1..3 : 0 <= frag.accum.rgb[k] /\ frag.accum.rgb[k] <= One

\* C16 amended: at every step of every ray the accumulated alpha stays
\* within [0, 1] and each accumulated RGB component stays within [0, gain],
\* gain being the factor the shader multiplies the colour by; with a gain
\* above 1 a component can exceed 1.
C16_AccumWithinGain ==
  "accum" \in DOMAIN frag =>
    /\ 0 <= frag.accum.a /\ frag.accum.a <= One
    /\ \A k \in 1..3 : 0 <= frag.accum.rgb[k] /\ frag.accum.rgb[k] <= GainOf(draw)

\* a ray of the shader of the two textures at brightness 60 has accumulated
\* a component above 1.0, below its gain of 4.0
C16_Witness ==
  /\ "accum" \in DOMAIN frag
  /\ draw.shader = "fusion"
  /\ draw.u_brightness = 60 * One
  /\ \E k \in 1..3 : frag.accum.rgb[k] > One
  /\ frag.accum.a > Dec(9, 10)

\* the counts of the passes through the loop body
LoopBudget ==
  Marched =>
    /\ frag.steps <= MAX_STEPS
    /\ frag.pc = "loop" => frag.steps = frag.i /\ frag.accum.a < Saturated
    /\ frag.pc # "loop" =>
         IF frag.accum.a >= Saturated THEN frag.i = frag.steps - 1
         ELSE frag.steps = MAX_STEPS

\* C17: the loop of a ray that hits the box ends, after at most 160 passes:
\* every step taken in the loop is one more pass or the way out, it takes
\* exactly 160 samples unless the accumulated alpha is at least 0.95 after
\* some pass, and then that pass is the last one.
C17_LoopEndsWithinBudget ==
  [][ /\ LoopBudget'
      /\ frag.pc = "loop" =>
           \/ frag'.pc = "loop" /\ frag'.steps = frag.steps + 1
                               /\ frag'.steps < MAX_STEPS + 1
           \/ frag'.pc = "after" /\ (frag.i < MAX_STEPS => frag'.steps = frag.steps + 1)
                                /\ (frag.i >= MAX_STEPS => frag'.steps = MAX_STEPS) ]_vars

\* a ray has left the loop on saturation before its 160th pass and has
\* written its pixel
C17_Witness ==
  /\ frag.pc = "written"
  /\ frag.steps < MAX_STEPS
  /\ frag.accum.a >= Saturated

\* C18: past the loop, a ray whose accumulated alpha is below 0.01 is
\* discarded and writes no pixel, and a ray whose accumulated alpha is 0.01
\* or more writes exactly the accumulated colour and alpha.
C18_DiscardOrWriteAccum ==
  [][ frag.pc = "after" =>
        IF frag.accum.a < Visible
          THEN frag'.pc = "discarded" /\ "gl_FragColor" \notin DOMAIN frag'
          ELSE /\ frag'.pc = "written"
               /\ frag'.gl_FragColor.rgb = frag.accum.rgb
               /\ frag'.gl_FragColor.a = frag.accum.a ]_vars

\* a ray that ended its 160 passes with an alpha between 0.01 and 0.95 has
\* written its accumulator
C18_Witness ==
  /\ frag.pc = "written"
  /\ frag.steps = MAX_STEPS
  /\ frag.accum.a >= Visible /\ frag.accum.a < Saturated
  /\ frag.gl_FragColor = frag.accum

\* the distance of pass i of the loop
TAt(i) == RAdd(StartOf(frag.t_hit), RMul(RInt(i), frag.t_step))

\* val is in the band and high enough in it for an edge factor of 1.0:
\* (norm - 0.15) * 1.7 >= 1.0 from norm = 0.74 on
FullEdge(d, val) ==
  /\ val >= d.u_thresholdMin /\ val <= d.u_thresholdMax
  /\ val - d.u_thresholdMin >= FMulX(d.u_thresholdMax - d.u_thresholdMin, Dec(74, 100))

\* the single shader with the opacity at its upper bound 15 and the widest
\* band of the dashboard, 0.01 to 1.0
MaxOpaque(d) ==
  /\ d.shader = "single"
  /\ d.u_opacity = 15 * One
  /\ d.u_thresholdMin = Dec(1, 100) /\ d.u_thresholdMax = One

\* every one of the 160 sample positions of the ray is sampled and has a
\* value in the band with full edge
FullEdgeAlong(d) ==
  \A i \in 0..(MAX_STEPS - 1) :
    LET uvw == UvwAt(d, TAt(i))
    IN  /\ ~(d.u_clipping /\ (RLt(d.u_clipX, uvw[1]) \/ RLt(d.u_clipY, uvw[2])
                                \/ RLt(d.u_clipZ, uvw[3])))
        /\ FullEdge(d, ValAt(d, uvw))

\* C19: with the opacity at 15, the band over the whole value range and
\* every sample in the band with full edge, the accumulated alpha reaches
\* 0.95 at a pass before the 160th: the loop is left early and the pixel is
\* written.
C19_MaxOpacitySaturatesEarly ==
  (Finished /\ Marched /\ MaxOpaque(draw) /\ FullEdgeAlong(draw)) =>
    /\ frag.steps < MAX_STEPS
    /\ frag.accum.a >= Saturated
    /\ frag.pc = "written"

\* such a ray has saturated at its 99th pass
C19_Witness ==
  /\ frag.pc = "written"
  /\ MaxOpaque(draw)
  /\ frag.steps = 99
  /\ frag.accum.a >= Saturated
  /\ FullEdgeAlong(draw)

\* uvw is beyond the clip fraction of d on some axis
BeyondClip(d, uvw) ==
  RLt(d.u_clipX, uvw[1]) \/ RLt(d.u_clipY, uvw[2]) \/ RLt(d.u_clipZ, uvw[3])

\* other clip fractions the sliders give
OtherClips == {<<RInt(0), RInt(0), RInt(0)>>, <<Rat(1, 2), Rat(1, 2), Rat(1, 4)>>}

\* the draw call d with the clip fractions c
WithClips(d, c) == [d EXCEPT !.u_clipX = c[1], !.u_clipY = c[2], !.u_clipZ = c[3]]

\* C20: with clipping enabled, a pass whose texture coordinate is beyond
\* its clip fraction on some axis leaves accum as it was; with clipping
\* disabled, every pass leaves the accum it would leave with any other
\* clip fractions, and so does the ray as a whole.
C20_ClipSkipsOnlyWhenEnabled ==
  [][ /\ (PassTaken /\ draw.shader = "single" /\ draw.u_clipping
            /\ BeyondClip(draw, UvwAt(draw, frag.t)))
         => frag'.accum = frag.accum
      /\ (PassTaken /\ ~draw.u_clipping)
         => \A c \in OtherClips :
              frag'.accum = StepAccum(WithClips(draw, c), frag.t, frag.accum) ]_vars

\* with clipping enabled, a ray that has gathered some alpha has just made
\* a pass beyond the clip fraction at a value inside the band
C20_Witness ==
  /\ frag.pc = "loop"
  /\ draw.shader = "single" /\ draw.u_clipping
  /\ frag.steps > 0
  /\ frag.accum.a > 0
  /\ LET uvw == UvwAt(draw, RSub(frag.t, frag.t_step))
     IN  /\ BeyondClip(draw, uvw)
         /\ FullEdge(draw, ValAt(draw, uvw))

(* ---------------------- properties of the Dashboard -------------------- *)

\* the names of the uniforms that mirror the render state
Mirrored == DOMAIN UniformsOf(InitialState)

\* C21: whatever updates the render state has gone through, a frame
\* callback leaves every uniform that mirrors the state (both thresholds,
\* opacity, brightness, clip enable and the three clip fractions, modality,
\* palette id and palette enable) equal to the value derived from the
\* current state, and leaves the state as it is: the frame drawn after the
\* callback uses no value of an earlier state.
C21_FrameMirrorsState ==
  [][ UseFrame =>
        /\ state' = state
        /\ \A name \in Mirrored : uniforms'[name] = UniformsOf(state)[name]
        /\ uniforms'.u_thresholdMax = Min(PerUnit, state.thresholdMin + state.thresholdInterval)
        /\ uniforms'.u_colorMap = cmap(state.colorMap) ]_vars

\* every field of the render state that a control of the model can change
\* has been changed, the palette among them, frames have run, and the
\* uniforms hold the values of this state
C21_Witness ==
  /\ ViewerRendered
  /\ viewer.rotation = MaxFrames
  /\ state.thresholdMin = 9900 /\ state.thresholdInterval = 100
  /\ state.opacity = 5000 /\ state.brightness = 60 * PerUnit
  /\ state.enableSlicing
  /\ state.sliceX = 0 /\ state.sliceY = 0 /\ state.sliceZ = 0
  /\ ~state.isT1 /\ state.colorMap = "inferno" /\ ~state.useColorMap
  /\ uniforms.u_colorMap = 3 /\ ~uniforms.u_useColorMap
  /\ \A name \in Mirrored : uniforms[name] = UniformsOf(state)[name]

\* C22: whatever changes the THRES MIN and INTERVAL sliders have made, in
\* any order, the thresholds the uniforms hold satisfy
\* u_thresholdMin <= u_thresholdMax <= 1, and u_thresholdMax is
\* min(1, thresholdMin + thresholdInterval) of the state.
C22_ThresholdsOrdered ==
  ViewerRendered =>
    /\ uniforms.u_thresholdMin <= uniforms.u_thresholdMax
    /\ uniforms.u_thresholdMax <= PerUnit
    /\ uniforms.u_thresholdMin = state.thresholdMin
    /\ uniforms.u_thresholdMax = Min(PerUnit, state.thresholdMin + state.thresholdInterval)

\* both sliders have been dragged, the sum of min and interval is above 1
\* and a frame has run after that: the upper threshold is 1
C22_Witness ==
  /\ ViewerRendered
  /\ slider["THRES MIN"].newVal # Null /\ slider["INTERVAL"].newVal # Null
  /\ state.thresholdMin + state.thresholdInterval > PerUnit
  /\ viewer.rotation > 0
  /\ uniforms.u_thresholdMax = PerUnit

\* C25 as stated: whatever changes the THRES MIN and INTERVAL sliders have made
\* from the initial state, the stored state has
\* thresholdMin + thresholdInterval <= 1, thresholdInterval >= 0.005 and
\* thresholdMin <= 0.99.
C25_SumWithinOne ==
  /\ state.thresholdMin + state.thresholdInterval <= PerUnit
  /\ state.thresholdInterval >= 50
  /\ state.thresholdMin <= 9900

\* C25 as amended: the stored state keeps thresholdMin within [0.01, 0.99]
\* and thresholdInterval within [0.005, 0.99]; a change of thresholdInterval
\* leaves thresholdMin + thresholdInterval <= 1, and a change of thresholdMin
\* leaves thresholdInterval as it is, so that the sum can pass 1.
C25_StoredThresholds ==
  [][ /\ state'.thresholdMin >= 100 /\ state'.thresholdMin <= 9900
      /\ state'.thresholdInterval >= 50 /\ state'.thresholdInterval <= 9900
      /\ state'.thresholdInterval # state.thresholdInterval
           => state'.thresholdMin + state'.thresholdInterval <= PerUnit
      /\ state'.thresholdMin # state.thresholdMin
           => state'.thresholdInterval = state.thresholdInterval ]_vars

\* the interval was dragged to its maximum and then THRES MIN to its
\* maximum: the sum is above 1
C25_Witness ==
  /\ slider["INTERVAL"].newVal = Val(PerUnit)
  /\ slider["THRES MIN"].newVal = Val(9900)
  /\ state.thresholdMin = 9900
  /\ state.thresholdInterval = 9200

(* ----------------------- properties of the sliders --------------------- *)

\* the slider holds the capture of a pointer other than this one
HeldByOther(label, pointerId) ==
  slider[label].pointerIdRef \notin {Null, Val(pointerId)}

\* C29: a slider follows one pointer at a time. A pointer-down on a slider
\* that holds a captured pointer changes nothing; a move, an up or a cancel
\* of a pointer other than the captured one changes neither the state nor
\* the slider; the captured pointer is replaced only after it was released;
\* isDragging is true exactly while a pointer id is captured; and every value
\* handed to onChange lies within [min, max] of the slider.
C29_OnePointerPerSlider ==
  [][ \A label \in ThresholdLabels :
        /\ slider'[label].isDragging <=> slider'[label].pointerIdRef # Null
        /\ slider'[label].newVal # Null
             => /\ slider'[label].newVal.v >= SliderMin(label)
                /\ slider'[label].newVal.v <= SliderMax(label)
        /\ (slider[label].pointerIdRef # Null /\ slider'[label].pointerIdRef # Null)
             => slider'[label].pointerIdRef = slider[label].pointerIdRef
        /\ \A pointerId \in PointerIds :
             /\ (HandlePointerDown(label, pointerId) /\ slider[label].pointerIdRef # Null)
                  => UNCHANGED <<state, uniforms, slider>>
             /\ ((HandlePointerMove(label, pointerId) \/ HandlePointerUp(label, pointerId))
                   /\ HeldByOther(label, pointerId))
                  => UNCHANGED <<state, uniforms, slider>> ]_vars

\* each of the two sliders holds the capture of its own pointer, one dragged
\* to the right end and the other to the left end
C29_Witness ==
  /\ slider["THRES MIN"] = [isDragging |-> TRUE, pointerIdRef |-> Val(1), newVal |-> Val(9900)]
  /\ slider["INTERVAL"] = [isDragging |-> TRUE, pointerIdRef |-> Val(2), newVal |-> Val(50)]
  /\ state.thresholdMin = 9900
  /\ state.thresholdInterval = 50

(* -------------------- properties of the error state -------------------- *)

\* C26: once error is not null, whether a load failed or an XR entry failed
\* or was unsupported, no step sets it back to null or changes it, and in
\* every state with an error the volume viewer is not rendered, its
\* components are unmounted and the Enter button is not shown, also when
\* both scans had been loaded before the error.
C26_ErrorIsAbsorbing ==
  [][ /\ error # Null => error' = error
      /\ error' # Null
           => /\ ~ViewerRendered'
              /\ ~EnterButtonShown'
              /\ viewer' = Null /\ slider' = Null /\ uniforms' = Null ]_vars

\* both scans were loaded and the viewer was rendered, and then an XR entry
\* failed
C26_Witness ==
  /\ error # Null
  /\ ~loading
  /\ t1Data # Null /\ t2Data # Null
  /\ error.message = XRMessage("unsupported")

(* ------------------------ properties of the fusion --------------------- *)

\* the samples of the first (T1) and of the second (T2) texture at the
\* distance frag.t, and the mix weight as the shader takes it
FirstVal == texture(draw.u_data, UvwAt(draw, frag.t))
SecondVal == texture(draw.u_data2, UvwAt(draw, frag.t))
MixWeight ==
  IF draw.u_mixT1T2 < 0 THEN 0 ELSE IF draw.u_mixT1T2 > One THEN One ELSE draw.u_mixT1T2

\* C23: in the fusion shader the value of the band test is
\* second + w * (first - second), to the last place of the arithmetic, with
\* w the mix weight clamped to [0, 1]; a weight of 1.0 or more gives exactly
\* the sample of the first texture and a weight of 0.0 or less exactly the
\* sample of the second.
C23_FusionBlend ==
  (draw.shader = "fusion" /\ frag.pc = "loop" /\ frag.i < MAX_STEPS) =>
    /\ Abs(SampledVal - (SecondVal + FMulX(MixWeight, FirstVal - SecondVal))) <= 1
    /\ draw.u_mixT1T2 >= One => SampledVal = FirstVal
    /\ draw.u_mixT1T2 <= 0 => SampledVal = SecondVal

\* a fusion ray is inside the loop, with a weight above 1, at a place where
\* the two textures differ
C23_Witness ==
  /\ draw.shader = "fusion"
  /\ frag.pc = "loop" /\ frag.i < MAX_STEPS
  /\ frag.steps > 0
  /\ draw.u_mixT1T2 > One
  /\ FirstVal # SecondVal
  /\ SampledVal = FirstVal

(* ----------------------- properties of the corners --------------------- *)

\* C27: whenever isDraggingCorner is false the captured pointer id is null,
\* whatever pointer-down, pointer-up, pointer-cancel, select-start,
\* select-end and grace-timer events have happened, so that no drag starts
\* with the pointer id of an earlier drag still in place to filter its moves.
C27_NoStalePointerId ==
  ViewerRendered => (~viewer.isDraggingCorner => viewer.pointerIdRef = Null)

C30_ScaleClampedDragsApart ==
  [][ ViewerRendered' =>
        /\ \A c \in 1..3 : viewer'.scale[c] >= 200 /\ viewer'.scale[c] <= 3000
        /\ viewer'.scale # viewer.scale
             => /\ viewer.dragModeRef = Val("scale")
                /\ \E pointerId \in PointerIds : OnScenePointerMove(pointerId)
                /\ viewer'.position = viewer.position
        /\ viewer'.position # viewer.position
             => /\ viewer.dragModeRef = Val("move")
                /\ \E pointerId \in PointerIds : OnScenePointerMove(pointerId)
                /\ viewer'.scale = viewer.scale ]_vars

\* a scale drag has taken the scale down to the lower clamp and a move drag
\* has taken the group away from where it was mounted
C30_Witness ==
  /\ ViewerRendered
  /\ viewer.scale = Vector3(200, 200, 200)
  /\ viewer.position # Vector3(0, 0, 0)
  /\ viewer.isDraggingCorner

\* C24: once a scan has been decoded, no later step of the program (a slider
\* change, a toggle, a corner drag, a modality switch, a frame, an XR entry,
\* or the rest of the load) changes its data array, its dimensions, its
\* spacing or its aspect ratio: the resolved result of the decoder stays as it
\* is, and a dataset held by App stays equal to that result.
C24_DecodedDatasetImmutable ==
  [][ \A c \in Chan :
        /\ pc[c] = "resolved" => promise'[c] = promise[c]
        /\ DataOf(c) # Null
             => /\ (IF c = "t1" THEN t1Data' ELSE t2Data') = DataOf(c)
                /\ DataOf(c) = promise[c].value ]_vars

\* both scans are decoded and every kind of operation has acted since: the
\* threshold was dragged, clipping and modality were toggled, the frames were
\* drawn, a scale drag has changed the scale, and the XR session was entered
C24_Witness ==
  /\ ViewerRendered
  /\ Complete(t1Data) /\ Complete(t2Data)
  /\ xrSession = TRUE
  /\ state.thresholdMin # InitialState.thresholdMin
  /\ state.enableSlicing
  /\ ~state.isT1
  /\ viewer.rotation = MaxFrames
  /\ viewer.scale # Vector3(1000, 1000, 1000)

====
